---- MODULE Spec2Model ----
(***************************************************************************)
(* Verification model of the growth-buddy voice backend.                   *)
(*                                                                         *)
(*  - EndpointDetector (app/services/vad.py): the per-frame hysteresis     *)
(*    state machine, explored under SpecVad.                               *)
(*  - VoiceWsHandler.run (app/application/ws/voice_ws_handler.py): the     *)
(*    receive loop and the playback tasks of one connection, explored      *)
(*    under Spec (and FairSpec for progress).                              *)
(*  - VoiceChatService (app/services/voice_chat_service.py): the turn      *)
(*    pipeline prepare_turn / handle_turn / handle_turn_stream of one      *)
(*    bound device, explored under SpecTurn.                               *)
(***************************************************************************)
EXTENDS Integers, Sequences, FiniteSets, TLC

VARIABLES
    cfg,            \* EndpointDetector._cfg (EndpointConfig)
    det,            \* EndpointDetector: _in_speech, _speech_run, _silence_run, _utter_ms
    hist,           \* per processed frame: classification, edges returned, in_speech before
    mpc,            \* run(): the await at which the receive loop is suspended
    msg,            \* run(): the inbound message in hand (locals start, end, ctx)
    in_speech,      \* run(): in_speech
    current_pcm,    \* run(): current_pcm, as whether it holds any audio
    det_in_speech,  \* run(): detector.in_speech of the connection's detector
    playback_ctx,   \* run(): playback_ctx (0 is None, else the turn id of the context)
    playback_task,  \* run(): playback_task: the task's await and the ctx of its closure
    playback_cancel,\* run(): playback_cancel.is_set() (False while it is None)
    superseded,     \* the task start_playback replaced before it had ended by itself
    ctx,            \* the live PlaybackContext objects, by turn id
    turns,          \* the persisted Turn rows, by turn id
    sent,           \* the frame the last step wrote to the websocket, if any
    wire_ctl,       \* the last turn_started / resume_started / tts_paused on the wire
    chat_sessions,  \* chat_sessions table: the number of rows of the child (ids 1..n)
    turn_rows,      \* turns table as the turn pipeline writes it, in creation order
    pipe,           \* the turn-pipeline invocation in progress, or the last one
    send_lock,      \* run(): send_lock (asyncio.Lock)
    sender,         \* per sending coroutine: where it is in send_json / send_bytes, and its frame
    requests,       \* the frames in the order in which their sends were called
    wire,           \* the frames in the order in which the websocket wrote them
    db_fails,       \* whether a write of the db session can raise
    seg_in,         \* the arguments of the call of segment_text_for_tts
    seg_out,        \* the list it returned
    seg_pc,         \* where the caller of segment_text_for_tts is
    pcm_stream,     \* the byte stream the two detectors are fed
    feeds,          \* per detector: bytes read, state, buffer, transitions so far
    invs,           \* the invocation of each caller of the service
    pb,             \* the playback of one turn, its context and its task
    reply_audio,    \* the reply audio of the turn in the store, and the buffers handed to it
    reply_in,       \* child, device, generated reply and safety verdicts of a call
    reply_out,      \* the reply_text_final of the call
    reply_pc,       \* none, call or done
    otp,            \* the OtpRecord of the phone
    otp_now,        \* the clock, in seconds
    otp_log         \* the last call and the failed verifications since the last success

vadVars == <<cfg, det, hist>>
wsVars == <<mpc, msg, in_speech, current_pcm, det_in_speech, playback_ctx,
            playback_task, playback_cancel, superseded, ctx, turns, sent, wire_ctl>>
pipeVars == <<chat_sessions, turn_rows, pipe>>
sendVars == <<send_lock, sender, requests, wire>>
storeVars == <<db_fails>>
segVars == <<seg_in, seg_out, seg_pc>>
chunkVars == <<pcm_stream, feeds>>
overlapVars == <<invs>>
bufVars == <<pb, reply_audio>>
replyVars == <<reply_in, reply_out, reply_pc>>
otpVars == <<otp, otp_now, otp_log>>
vars == <<cfg, det, hist, mpc, msg, in_speech, current_pcm, det_in_speech,
          playback_ctx, playback_task, playback_cancel, superseded, ctx, turns,
          sent, wire_ctl, chat_sessions, turn_rows, pipe,
          send_lock, sender, requests, wire,
          db_fails,
          seg_in, seg_out, seg_pc,
          pcm_stream, feeds,
          invs,
          pb, reply_audio,
          reply_in, reply_out, reply_pc,
          otp, otp_now, otp_log>>

(***************************************************************************)
(* Bounds of the exploration                                               *)
(***************************************************************************)
MaxFrames == 9
MaxStartFrames == 3
MaxEndSilenceFrames == 2
MaxUtterFrames == 7
MaxTurns == 2
MaxResumes == 1
MaxSegs == 2
MaxPcm == 1
MaxRows == 2
MaxSessions == 2
MaxSends == 4
MaxTextLen == 5
MaxMaxChars == 3
MaxMinChars == 2
MaxStreamLen == 6
MaxChunks == 2
MaxTopicsLen == 3
MaxReplyLen == 2
MaxTicks == 8
SampleRate == 50

(***************************************************************************)
(* EndpointDetector                                                        *)
(***************************************************************************)
FrameMs == 20

EndpointConfig(ssf, sesf, max_ms) ==
    [frame_ms |-> FrameMs,
     speech_start_frames |-> ssf,
     speech_end_silence_frames |-> sesf,
     max_utterance_ms |-> max_ms]

DetectorInit ==
    [in_speech |-> FALSE, speech_run |-> 0, silence_run |-> 0, utter_ms |-> 0]

\* Variant of process_frame that does not clear speech_run on a silence
\* frame, so that speech frames separated by silence add up.
process_frame_sticky(c, d, is_speech) ==
    LET utter == d.utter_ms + c.frame_ms
        sr == IF is_speech THEN d.speech_run + 1 ELSE d.speech_run
        sl == IF is_speech THEN 0 ELSE d.silence_run + 1
    IN  IF ~d.in_speech
        THEN IF is_speech /\ sr >= c.speech_start_frames
             THEN [det |-> [in_speech |-> TRUE, speech_run |-> sr,
                            silence_run |-> 0, utter_ms |-> utter],
                   start |-> TRUE, end |-> FALSE]
             ELSE [det |-> [in_speech |-> FALSE, speech_run |-> sr,
                            silence_run |-> sl, utter_ms |-> utter],
                   start |-> FALSE, end |-> FALSE]
        ELSE IF (~is_speech /\ sl >= c.speech_end_silence_frames)
                  \/ utter >= c.max_utterance_ms
             THEN [det |-> [in_speech |-> FALSE, speech_run |-> 0,
                            silence_run |-> 0, utter_ms |-> 0],
                   start |-> FALSE, end |-> TRUE]
             ELSE [det |-> [in_speech |-> TRUE, speech_run |-> sr,
                            silence_run |-> sl, utter_ms |-> utter],
                   start |-> FALSE, end |-> FALSE]

\* Variant of process_frame whose silence threshold is compared with >
\* instead of >=, so that the silence edge fires one frame late.
process_frame_late(c, d, is_speech) ==
    LET utter == d.utter_ms + c.frame_ms
        sr == IF is_speech THEN d.speech_run + 1 ELSE 0
        sl == IF is_speech THEN 0 ELSE d.silence_run + 1
    IN  IF ~d.in_speech
        THEN IF is_speech /\ sr >= c.speech_start_frames
             THEN [det |-> [in_speech |-> TRUE, speech_run |-> sr,
                            silence_run |-> 0, utter_ms |-> utter],
                   start |-> TRUE, end |-> FALSE]
             ELSE [det |-> [in_speech |-> FALSE, speech_run |-> sr,
                            silence_run |-> sl, utter_ms |-> utter],
                   start |-> FALSE, end |-> FALSE]
        ELSE IF (~is_speech /\ sl > c.speech_end_silence_frames)
                  \/ utter >= c.max_utterance_ms
             THEN [det |-> [in_speech |-> FALSE, speech_run |-> 0,
                            silence_run |-> 0, utter_ms |-> 0],
                   start |-> FALSE, end |-> TRUE]
             ELSE [det |-> [in_speech |-> TRUE, speech_run |-> sr,
                            silence_run |-> sl, utter_ms |-> utter],
                   start |-> FALSE, end |-> FALSE]

\* Variant of process_frame without the utterance cap: only silence ends
\* an utterance.
process_frame_nocap(c, d, is_speech) ==
    LET utter == d.utter_ms + c.frame_ms
        sr == IF is_speech THEN d.speech_run + 1 ELSE 0
        sl == IF is_speech THEN 0 ELSE d.silence_run + 1
    IN  IF ~d.in_speech
        THEN IF is_speech /\ sr >= c.speech_start_frames
             THEN [det |-> [in_speech |-> TRUE, speech_run |-> sr,
                            silence_run |-> 0, utter_ms |-> utter],
                   start |-> TRUE, end |-> FALSE]
             ELSE [det |-> [in_speech |-> FALSE, speech_run |-> sr,
                            silence_run |-> sl, utter_ms |-> utter],
                   start |-> FALSE, end |-> FALSE]
        ELSE IF ~is_speech /\ sl >= c.speech_end_silence_frames
             THEN [det |-> [in_speech |-> FALSE, speech_run |-> 0,
                            silence_run |-> 0, utter_ms |-> 0],
                   start |-> FALSE, end |-> TRUE]
             ELSE [det |-> [in_speech |-> TRUE, speech_run |-> sr,
                            silence_run |-> sl, utter_ms |-> utter],
                   start |-> FALSE, end |-> FALSE]

\* EndpointDetector._process_frame: one classified frame in, the new
\* detector state and the pair (speech_start, speech_end) out.
process_frame(c, d, is_speech) ==
    LET utter == d.utter_ms + c.frame_ms
        sr == IF is_speech THEN d.speech_run + 1 ELSE 0
        sl == IF is_speech THEN 0 ELSE d.silence_run + 1
    IN  IF ~d.in_speech
        THEN IF is_speech /\ sr >= c.speech_start_frames
             THEN [det |-> [in_speech |-> TRUE, speech_run |-> sr,
                            silence_run |-> 0, utter_ms |-> utter],
                   start |-> TRUE, end |-> FALSE]
             ELSE [det |-> [in_speech |-> FALSE, speech_run |-> sr,
                            silence_run |-> sl, utter_ms |-> utter],
                   start |-> FALSE, end |-> FALSE]
        ELSE IF (~is_speech /\ sl >= c.speech_end_silence_frames)
                  \/ utter >= c.max_utterance_ms
             THEN [det |-> [in_speech |-> FALSE, speech_run |-> 0,
                            silence_run |-> 0, utter_ms |-> 0],
                   start |-> FALSE, end |-> TRUE]
             ELSE [det |-> [in_speech |-> TRUE, speech_run |-> sr,
                            silence_run |-> sl, utter_ms |-> utter],
                   start |-> FALSE, end |-> FALSE]

\* EndpointDetector.__init__: the configuration is a constructor argument.
VadInit ==
    /\ cfg \in {EndpointConfig(ssf, sesf, FrameMs * k) :
                  ssf \in 1..MaxStartFrames,
                  sesf \in 1..MaxEndSilenceFrames,
                  k \in 2..MaxUtterFrames}
    /\ det = DetectorInit
    /\ hist = <<>>

\* One frame of the stream goes through _process_frame; the classifier's
\* verdict on it is the input.
VadFrame ==
    /\ Len(hist) < MaxFrames
    /\ \E is_speech \in BOOLEAN :
         LET r == process_frame(cfg, det, is_speech)
         IN  /\ det' = r.det
             /\ hist' = Append(hist, [sp |-> is_speech, st |-> r.start,
                                      en |-> r.end, inb |-> det.in_speech])
    /\ UNCHANGED cfg
    /\ UNCHANGED <<wsVars, pipeVars, sendVars, storeVars, segVars, chunkVars, overlapVars, bufVars, replyVars, otpVars>>

\* EndpointDetector.reset
VadReset ==
    /\ hist # <<>>
    /\ det' = DetectorInit
    /\ hist' = <<>>
    /\ UNCHANGED cfg
    /\ UNCHANGED <<wsVars, pipeVars, sendVars, storeVars, segVars, chunkVars, overlapVars, bufVars, replyVars, otpVars>>

(***************************************************************************)
(* VoiceChatService: the turn pipeline                                     *)
(*                                                                         *)
(* One device bound to one child.  Invocations do not overlap: pipe holds  *)
(* the invocation in progress, and after its return or raise what it did.  *)
(* A Turn row keeps the columns the pipeline decides; the reply texts are  *)
(* tokens, and the recognized text, which decides no column but its own,   *)
(* is left out (no caller passes user_text_override).  app.domain.safety   *)
(* and the ASR / LLM / TTS providers are outside the service: their        *)
(* verdicts and failures are inputs.                                       *)
(***************************************************************************)
EntryPoints == {"prepare_turn", "handle_turn", "handle_turn_stream"}

\* device_sn: a device bound to the child, one bound to nobody, none at all
Devices == {"sn_bound", "sn_unbound", "sn_unknown"}

\* what provider.chat returns, or "fail" when it raises
LlmReplies == {"fail", "", "  ", "story", "risky story"}

\* str.strip on the texts above
strip(t) == IF t = "  " THEN "" ELSE t

PipeIdle ==
    [pc |-> "idle", entry |-> "none", result |-> "none", session_arg |-> 0,
     session_id |-> 0, seq |-> 0, in_risk |-> FALSE,
     out_risk |-> FALSE, risk_source |-> "none", audit_action |-> "allow",
     reply |-> "", calls |-> <<>>]

\* _load_device_and_child: raises ValueError unless the device exists and is
\* bound to an existing child (TRUE: it returns)
load_device_and_child(sn) == sn = "sn_bound"

\* _get_or_create_session over n existing sessions of the child; session_id 0
\* is None.  ok is FALSE where it raises ValueError.
get_or_create_session(n, session_id) ==
    IF session_id # 0
    THEN [ok |-> session_id \in 1..n, id |-> session_id, n |-> n]
    ELSE [ok |-> TRUE, id |-> n + 1, n |-> n + 1]

RECURSIVE MaxSeq(_, _)
\* func.max(Turn.seq) filtered by session_id; 0 is None
MaxSeq(rows, sid) ==
    IF rows = <<>> THEN 0
    ELSE LET m == MaxSeq(Tail(rows), sid)
             r == Head(rows)
         IN  IF r.session_id = sid /\ r.seq > m THEN r.seq ELSE m

\* Variant of _next_turn_seq without the session filter.
next_turn_seq_global(rows, sid) ==
    IF rows = <<>> THEN 1 ELSE Len(rows) + 1

\* _next_turn_seq
next_turn_seq(rows, sid) ==
    LET last_seq == MaxSeq(rows, sid)
    IN  IF last_seq = 0 THEN 1 ELSE last_seq + 1

\* _safe_reply
safe_reply == "safe_reply"

\* _sanitize_reply: an empty reply or one with a risk keyword is replaced
sanitize_reply(reply_text) ==
    IF reply_text = "" \/ reply_text = "risky story"
    THEN "sanitize_phrase"
    ELSE reply_text

\* Variant of the input-violation branch that leaves audit_action alone.
blocked_input_allow(p) ==
    [p EXCEPT !.in_risk = TRUE, !.risk_source = "input", !.reply = safe_reply]

\* the branch 'if in_risk' of the three entry points
blocked_input(p) ==
    [p EXCEPT !.in_risk = TRUE, !.risk_source = "input",
              !.audit_action = "block_input", !.reply = safe_reply]

\* Variant of the output-violation branch that keeps the candidate reply.
blocked_output_keep(p, candidate) ==
    [p EXCEPT !.out_risk = TRUE, !.risk_source = "output",
              !.audit_action = "block_output", !.reply = candidate]

\* the branch 'if out_risk' / else of the three entry points
blocked_output(p, candidate) ==
    [p EXCEPT !.out_risk = TRUE, !.risk_source = "output",
              !.audit_action = "block_output", !.reply = safe_reply]

\* Variant of the Turn of prepare_turn that takes the column defaults for
\* playback_status.
new_turn_prepare_default(p) ==
    [session_id |-> p.session_id, seq |-> p.seq, reply_text |-> p.reply,
     risk_flag |-> p.risk_source # "none", risk_source |-> p.risk_source,
     audit_action |-> p.audit_action, playback_status |-> "completed",
     resume_count |-> 0]

\* models.Turn(...) of prepare_turn
new_turn_prepare(p) ==
    [session_id |-> p.session_id, seq |-> p.seq, reply_text |-> p.reply,
     risk_flag |-> p.risk_source # "none", risk_source |-> p.risk_source,
     audit_action |-> p.audit_action, playback_status |-> "pending",
     resume_count |-> 0]

\* models.Turn(...) of handle_turn and handle_turn_stream: risk_flag,
\* audit_action, playback_status and resume_count take the column defaults
new_turn_handle(p) ==
    [session_id |-> p.session_id, seq |-> p.seq, reply_text |-> p.reply,
     risk_flag |-> FALSE, risk_source |-> p.risk_source,
     audit_action |-> "none", playback_status |-> "completed",
     resume_count |-> 0]

\* an exception leaves the entry point
Raise(p, what) ==
    /\ pipe' = [p EXCEPT !.pc = "idle", !.result = "raised",
                         !.calls = Append(p.calls, what)]
    /\ UNCHANGED turn_rows

\* db.add(turn); db.commit(); return
Persist(p, row) ==
    /\ turn_rows' = Append(turn_rows, row)
    /\ pipe' = [p EXCEPT !.pc = "idle", !.result = "ok",
                         !.calls = Append(p.calls, "commit_turn")]

\* after the reply text is settled: prepare_turn writes the row, the other
\* two entry points synthesize first
AfterReply(p) ==
    IF p.entry = "prepare_turn"
    THEN Persist(p, new_turn_prepare(p))
    ELSE /\ pipe' = [p EXCEPT !.pc = "tts"]
         /\ UNCHANGED turn_rows

PipeInit ==
    /\ chat_sessions = 0
    /\ turn_rows = <<>>
    /\ pipe = PipeIdle

\* An entry point is called: device and child, session, seq, upload of the
\* utterance; it then awaits the recognizer.
P_Begin ==
    /\ pipe.pc = "idle"
    /\ Len(turn_rows) < MaxRows
    /\ \E entry \in EntryPoints :
         LET p0 == [PipeIdle EXCEPT !.entry = entry]
         IN  \/ /\ \E sn \in Devices : ~load_device_and_child(sn)
                /\ Raise(p0, "load_device_and_child")
                /\ UNCHANGED chat_sessions
             \/ \E sid \in 0..(chat_sessions + 1), upload_ok \in BOOLEAN :
                  LET s == get_or_create_session(chat_sessions, sid)
                      seq == next_turn_seq(turn_rows, s.id)
                      p1 == [p0 EXCEPT !.session_arg = sid,
                                       !.session_id = s.id, !.seq = seq]
                  IN  /\ load_device_and_child("sn_bound")
                      /\ s.n <= MaxSessions
                      /\ IF ~s.ok
                         THEN /\ Raise(p0, "get_or_create_session")
                              /\ UNCHANGED chat_sessions
                         ELSE /\ chat_sessions' = s.n
                              /\ IF upload_ok
                                 THEN /\ pipe' = [p1 EXCEPT !.pc = "asr",
                                                   !.calls = <<"save_user_wav">>]
                                      /\ UNCHANGED turn_rows
                                 ELSE Raise(p1, "save_user_wav")
    /\ UNCHANGED <<vadVars, wsVars, sendVars, storeVars, segVars, chunkVars, overlapVars, bufVars, replyVars, otpVars>>

\* The recognizer returns or raises SpeechError; then the input-safety check.
P_Asr ==
    /\ pipe.pc = "asr"
    /\ \E asr_ok \in BOOLEAN, in_risk \in BOOLEAN :
         LET p1 == [pipe EXCEPT !.calls = @ \o <<"asr", "guard_child_input">>]
         IN  IF ~asr_ok
             THEN Raise(pipe, "asr")
             ELSE IF in_risk
             THEN AfterReply(blocked_input(p1))
             ELSE /\ pipe' = [p1 EXCEPT !.pc = "chat"]
                  /\ UNCHANGED turn_rows
    /\ UNCHANGED chat_sessions
    /\ UNCHANGED <<vadVars, wsVars, sendVars, storeVars, segVars, chunkVars, overlapVars, bufVars, replyVars, otpVars>>

\* provider.chat returns or raises; then _sanitize_reply and the
\* output-safety check.
P_Chat ==
    /\ pipe.pc = "chat"
    /\ \E res \in LlmReplies, out_risk \in BOOLEAN :
         LET candidate == sanitize_reply(strip(res))
             p1 == [pipe EXCEPT !.calls = @ \o <<"chat", "guard_reply_output">>]
         IN  IF res = "fail"
             THEN Raise(pipe, "chat")
             ELSE IF out_risk
             THEN AfterReply(blocked_output(p1, candidate))
             ELSE AfterReply([p1 EXCEPT !.reply = candidate])
    /\ UNCHANGED chat_sessions
    /\ UNCHANGED <<vadVars, wsVars, sendVars, storeVars, segVars, chunkVars, overlapVars, bufVars, replyVars, otpVars>>

\* handle_turn and handle_turn_stream: synthesis, upload of the reply audio,
\* then the Turn row.
P_Tts ==
    /\ pipe.pc = "tts"
    /\ \E tts_ok \in BOOLEAN, upload_ok \in BOOLEAN :
         IF ~tts_ok
         THEN Raise(pipe, "tts")
         ELSE IF ~upload_ok
         THEN Raise([pipe EXCEPT !.calls = Append(@, "tts")], "save_reply_wav")
         ELSE Persist([pipe EXCEPT !.calls = @ \o <<"tts", "save_reply_wav">>],
                      new_turn_handle(pipe))
    /\ UNCHANGED chat_sessions
    /\ UNCHANGED <<vadVars, wsVars, sendVars, storeVars, segVars, chunkVars, overlapVars, bufVars, replyVars, otpVars>>

(***************************************************************************)
(* send_json / send_bytes: the writer of the connection                    *)
(*                                                                         *)
(* Two coroutines send: the receive loop and the playback task (a new task *)
(* is created only when the one before has ended or was cancelled).  Each  *)
(* awaits its send, so each has at most one send under way.  send_lock is  *)
(* an asyncio.Lock: locked, its queue of waiters, and whether the first    *)
(* waiter was woken by a release.  requests numbers the frames in the      *)
(* order of the calls of send_json / send_bytes.                           *)
(***************************************************************************)
Senders == {"main", "task"}

FrameKinds == {"json", "bytes"}

IdleSender == [pc |-> "idle", frame |-> 0]

SendInit ==
    /\ send_lock = [locked |-> FALSE, waiters |-> <<>>, woken |-> FALSE]
    /\ sender = [p \in Senders |-> IdleSender]
    /\ requests = <<>>
    /\ wire = <<>>

\* Lock._wake_up_first
wake_up_first(l) == [l EXCEPT !.woken = (l.waiters # <<>>)]

\* Lock.release
release(l) ==
    IF l.locked THEN wake_up_first([l EXCEPT !.locked = FALSE]) ELSE l

\* the waiters without the future of p
Without(w, p) == SelectSeq(w, LAMBDA q : q # p)

\* Variant of the test of Lock.acquire that looks at the flag only.
can_acquire_barging(l) == ~l.locked

\* Lock.acquire, its test: free, and nobody queued before
can_acquire(l) == ~l.locked /\ l.waiters = <<>>

\* lines 97-103: send_json or send_bytes is called; 'async with send_lock'
\* takes the lock at once or queues
S_Request(p) ==
    /\ sender[p].pc = "idle"
    /\ Len(requests) < MaxSends
    /\ \E kind \in FrameKinds :
         LET id == Len(requests) + 1
         IN  /\ requests' = Append(requests, [id |-> id, who |-> p, kind |-> kind])
             /\ IF can_acquire(send_lock)
                THEN /\ send_lock' = [send_lock EXCEPT !.locked = TRUE]
                     /\ sender' = [sender EXCEPT ![p] = [pc |-> "write", frame |-> id]]
                ELSE /\ send_lock' = [send_lock EXCEPT !.waiters = Append(@, p)]
                     /\ sender' = [sender EXCEPT ![p] = [pc |-> "acquire", frame |-> id]]
    /\ UNCHANGED wire
    /\ UNCHANGED <<vadVars, wsVars, pipeVars, storeVars, segVars, chunkVars, overlapVars, bufVars, replyVars, otpVars>>

\* Lock.acquire resumes: the waiter woken by a release leaves the queue and
\* takes the lock, then ws.send_json / ws.send_bytes starts
S_Acquired(p) ==
    /\ sender[p].pc = "acquire"
    /\ send_lock.woken
    /\ send_lock.waiters # <<>> /\ Head(send_lock.waiters) = p
    /\ send_lock' = [locked |-> TRUE, waiters |-> Without(send_lock.waiters, p),
                     woken |-> FALSE]
    /\ sender' = [sender EXCEPT ![p].pc = "write"]
    /\ UNCHANGED <<requests, wire>>
    /\ UNCHANGED <<vadVars, wsVars, pipeVars, storeVars, segVars, chunkVars, overlapVars, bufVars, replyVars, otpVars>>

\* ws.send_json / ws.send_bytes returns: the frame is on the wire, the lock
\* is released
S_Written(p) ==
    /\ sender[p].pc = "write"
    /\ wire' = Append(wire, requests[sender[p].frame])
    /\ send_lock' = release(send_lock)
    /\ sender' = [sender EXCEPT ![p] = IdleSender]
    /\ UNCHANGED requests
    /\ UNCHANGED <<vadVars, wsVars, pipeVars, storeVars, segVars, chunkVars, overlapVars, bufVars, replyVars, otpVars>>

\* start_playback's wait_for cancels the playback task inside a send: while
\* queued it leaves the queue (waking the next waiter if it had been woken
\* itself); while writing the frame has gone out or not, and the lock is
\* released
S_Cancelled ==
    LET p == "task"
    IN  /\ sender[p].pc \in {"acquire", "write"}
        /\ IF sender[p].pc = "acquire"
           THEN /\ send_lock' =
                     LET l == [send_lock EXCEPT !.waiters = Without(@, p),
                                                !.woken = FALSE]
                     IN  IF ~l.locked THEN wake_up_first(l) ELSE l
                /\ UNCHANGED wire
           ELSE /\ send_lock' = release(send_lock)
                /\ \/ wire' = Append(wire, requests[sender[p].frame])
                   \/ UNCHANGED wire
        /\ sender' = [sender EXCEPT ![p] = IdleSender]
        /\ UNCHANGED requests
        /\ UNCHANGED <<vadVars, wsVars, pipeVars, storeVars, segVars, chunkVars, overlapVars, bufVars, replyVars, otpVars>>

(***************************************************************************)
(* The db session of the connection: writes that can fail                  *)
(***************************************************************************)
StoreInit == db_fails = FALSE

\* a write of the playback controller, all of which sit in try/except
\* Exception with a log line (lines 139-147, 155-163, 208-234, 246-255,
\* 270-274): the rows after it are new when the commit goes through and
\* old when the call raises
Commit(old, new) == IF db_fails THEN {old, new} ELSE {new}

(***************************************************************************)
(* segment_text_for_tts (text_segment.py)                                  *)
(***************************************************************************)
\* the characters of a text: a letter, a sentence end, a blank and a newline
Alphabet == {"a", ".", " ", "\n"}

\* str.isspace and the \s of re
IsSpace(c) == c \in {" ", "\n"}

\* the character class of _PUNCT_SPLIT_RE
IsPunct(c) == c \in {".", "\n"}

Texts == UNION {[1..n -> Alphabet] : n \in 0..MaxTextLen}

NoCall == [text |-> <<>>, max_chars |-> 1, min_chars |-> 1]

SegInit ==
    /\ seg_pc = "idle"
    /\ seg_in = NoCall
    /\ seg_out = <<>>

RECURSIVE lstrip(_)
lstrip(s) == IF s # <<>> /\ IsSpace(Head(s)) THEN lstrip(Tail(s)) ELSE s

RECURSIVE rstrip(_)
rstrip(s) ==
    IF s # <<>> /\ IsSpace(s[Len(s)]) THEN rstrip(SubSeq(s, 1, Len(s) - 1)) ELSE s

\* str.strip()
str_strip(s) == rstrip(lstrip(s))

\* line 33: re.sub(r"\s+", " ", s)
RECURSIVE normalize(_)
normalize(s) ==
    IF s = <<>> THEN <<>>
    ELSE IF IsSpace(Head(s)) THEN <<" ">> \o normalize(lstrip(s))
    ELSE <<Head(s)>> \o normalize(Tail(s))

\* length of the longest prefix of s made of punctuation (p) or of none
RECURSIVE run(_, _)
run(s, p) ==
    IF s # <<>> /\ IsPunct(Head(s)) = p THEN 1 + run(Tail(s), p) ELSE 0

\* line 38: _PUNCT_SPLIT_RE.split(s) without its empty strings: the runs
\* of punctuation and the text between them, in order
RECURSIVE split(_)
split(s) ==
    IF s = <<>> THEN <<>>
    ELSE LET n == run(s, IsPunct(Head(s)))
         IN  <<SubSeq(s, 1, n)>> \o split(SubSeq(s, n + 1, Len(s)))

\* lines 39-54: the loop over the tokens and the flush after it; buf is
\* "".join(buf)
RECURSIVE split_loop(_, _, _, _)
split_loop(tokens, buf, parts, max_chars) ==
    IF tokens = <<>>
    THEN IF buf # <<>> THEN Append(parts, str_strip(buf)) ELSE parts
    ELSE LET t == Head(tokens)
             b == buf \o t
         IN  IF IsPunct(Head(t)) \/ Len(b) >= max_chars
             THEN split_loop(Tail(tokens), <<>>, Append(parts, str_strip(b)), max_chars)
             ELSE split_loop(Tail(tokens), b, parts, max_chars)

\* Variant of merge that leaves out the parts shorter than min_chars.
RECURSIVE merge_drop(_, _, _)
merge_drop(parts, merged, min_chars) ==
    IF parts = <<>> THEN merged
    ELSE LET p == str_strip(Head(parts))
         IN  IF p = <<>> \/ (merged # <<>> /\ Len(p) < min_chars)
             THEN merge_drop(Tail(parts), merged, min_chars)
             ELSE merge_drop(Tail(parts), Append(merged, p), min_chars)

\* lines 56-65: a part shorter than min_chars joins the one before it
RECURSIVE merge(_, _, _)
merge(parts, merged, min_chars) ==
    IF parts = <<>> THEN merged
    ELSE LET p == str_strip(Head(parts))
             k == Len(merged)
         IN  IF p = <<>>
             THEN merge(Tail(parts), merged, min_chars)
             ELSE IF merged # <<>> /\ Len(p) < min_chars
             THEN merge(Tail(parts),
                        [merged EXCEPT ![k] = str_strip(merged[k] \o <<" ">> \o p)],
                        min_chars)
             ELSE merge(Tail(parts), Append(merged, p), min_chars)

\* lines 74-77: the chunks of max_chars characters of one segment
RECURSIVE chunks(_, _)
chunks(seg, max_chars) ==
    IF seg = <<>> THEN <<>>
    ELSE LET n == IF Len(seg) < max_chars THEN Len(seg) ELSE max_chars
             chunk == str_strip(SubSeq(seg, 1, n))
         IN  (IF chunk # <<>> THEN <<chunk>> ELSE <<>>)
                \o chunks(SubSeq(seg, n + 1, Len(seg)), max_chars)

\* Variant of hard_split that returns the merged segments as they are.
hard_split_none(merged, max_chars) == merged

\* lines 67-77
RECURSIVE hard_split(_, _)
hard_split(merged, max_chars) ==
    IF merged = <<>> THEN <<>>
    ELSE LET seg == Head(merged)
         IN  (IF Len(seg) <= max_chars THEN <<seg>> ELSE chunks(seg, max_chars))
                \o hard_split(Tail(merged), max_chars)

\* lines 25-79
segment_text_for_tts(text, max_chars, min_chars) ==
    LET s == str_strip(text)
    IN  IF s = <<>> THEN <<>>
        ELSE hard_split(merge(split_loop(split(normalize(s)), <<>>, <<>>, max_chars),
                              <<>>, min_chars),
                        max_chars)

\* "".join(segments)
RECURSIVE join(_)
join(segments) ==
    IF segments = <<>> THEN <<>> ELSE Head(segments) \o join(Tail(segments))

\* a caller segments a text
Segment ==
    /\ seg_pc = "call"
    /\ seg_out' = segment_text_for_tts(seg_in.text, seg_in.max_chars, seg_in.min_chars)
    /\ seg_pc' = "done"
    /\ UNCHANGED seg_in
    /\ UNCHANGED <<vadVars, wsVars, pipeVars, sendVars, storeVars, chunkVars, overlapVars, bufVars, replyVars, otpVars>>

\* the caller segments the concatenation of what it got
Resegment ==
    /\ seg_pc = "done"
    /\ seg_in' = [seg_in EXCEPT !.text = join(seg_out)]
    /\ seg_out' = segment_text_for_tts(join(seg_out), seg_in.max_chars,
                                       seg_in.min_chars)
    /\ seg_pc' = "again"
    /\ UNCHANGED <<vadVars, wsVars, pipeVars, sendVars, storeVars, chunkVars, overlapVars, bufVars, replyVars, otpVars>>

(***************************************************************************)
(* EndpointDetector.process: a byte stream cut into chunks                 *)
(*                                                                         *)
(* Two detectors of the same configuration read the same stream, each in   *)
(* chunks of its own.  The sample rate is scaled down so that a frame is   *)
(* two bytes.                                                              *)
(***************************************************************************)
Feeders == {"x", "y"}

Bytes == {0, 1}

\* vad.py 114-117: int(sample_rate * (frame_ms / 1000.0)) * 2
frame_bytes(c) == ((SampleRate * c.frame_ms) \div 1000) * 2

\* the classifier's verdict on a frame, a function of its bytes
is_speech(frame) == \E i \in DOMAIN frame : frame[i] = 1

NoFeed == [pos |-> 0, det |-> DetectorInit, buf |-> <<>>, edges |-> <<>>,
           cut_inside |-> FALSE]

ChunkInit ==
    /\ pcm_stream = <<>>
    /\ feeds = [p \in Feeders |-> NoFeed]

\* the edge a frame produced, for the record of transitions
Edge(r) == IF r.start THEN <<"start">> ELSE IF r.end THEN <<"end">> ELSE <<>>

\* lines 172-177: the loop over the whole frames of the buffer
RECURSIVE process_loop(_, _, _, _, _, _)
process_loop(c, d, buf, start_any, end_any, edges) ==
    IF Len(buf) >= frame_bytes(c)
    THEN LET frame == SubSeq(buf, 1, frame_bytes(c))
             r == process_frame(c, d, is_speech(frame))
         IN  process_loop(c, r.det, SubSeq(buf, frame_bytes(c) + 1, Len(buf)),
                          start_any \/ r.start, end_any \/ r.end, edges \o Edge(r))
    ELSE [det |-> d, buf |-> buf, start |-> start_any, end |-> end_any,
          edges |-> edges]

\* Variant of process that starts every call with an empty buffer.
process_fresh(c, f, pcm_chunk) ==
    IF pcm_chunk = <<>>
    THEN [det |-> f.det, buf |-> f.buf, start |-> FALSE, end |-> FALSE,
          edges |-> f.edges]
    ELSE process_loop(c, f.det, pcm_chunk, FALSE, FALSE, f.edges)

\* EndpointDetector.process, lines 162-179; f holds the detector
process(c, f, pcm_chunk) ==
    IF pcm_chunk = <<>>
    THEN [det |-> f.det, buf |-> f.buf, start |-> FALSE, end |-> FALSE,
          edges |-> f.edges]
    ELSE process_loop(c, f.det, f.buf \o pcm_chunk, FALSE, FALSE, f.edges)

\* detector p is given the next n bytes of the stream; the pair of flags
\* the call returns is not kept
Feed(p) ==
    \E n \in 0..(Len(pcm_stream) - feeds[p].pos) :
       LET f == feeds[p]
           r == process(cfg, f, SubSeq(pcm_stream, f.pos + 1, f.pos + n))
       IN  feeds' = [feeds EXCEPT ![p] =
                        [pos |-> f.pos + n, det |-> r.det, buf |-> r.buf,
                         edges |-> r.edges,
                         cut_inside |-> f.cut_inside \/ r.buf # <<>>]]
    /\ UNCHANGED pcm_stream
    /\ UNCHANGED <<vadVars, wsVars, pipeVars, sendVars, storeVars, segVars, overlapVars, bufVars, replyVars, otpVars>>

(***************************************************************************)
(* VoiceChatService: invocations that overlap                              *)
(*                                                                         *)
(* The entry points are coroutines of one service object; each caller has  *)
(* its own db session on the same database.  A caller that awaits the      *)
(* recognizer or the language model leaves the event loop to the other.    *)
(* invs holds the invocation of each caller while it runs and how it ended *)
(* afterwards; chat_sessions and turn_rows are the committed rows both     *)
(* see.                                                                    *)
(***************************************************************************)
Callers == {"a", "b"}

OverlapInit == invs = [c \in Callers |-> PipeIdle]

\* the invocations that are suspended at an await
InFlight == {c \in Callers : invs[c].pc # "idle"}

\* an exception leaves the entry point of caller c
ORaise(c, p, what) ==
    /\ invs' = [invs EXCEPT ![c] = [PipeIdle EXCEPT !.result = "raised",
                                                    !.calls = <<what>>]]
    /\ UNCHANGED turn_rows

\* db.add(turn); db.commit(); return
OPersist(c, p, row) ==
    /\ turn_rows' = Append(turn_rows, row)
    /\ invs' = [invs EXCEPT ![c] = [PipeIdle EXCEPT !.result = "ok"]]

OAfterReply(c, p) ==
    IF p.entry = "prepare_turn"
    THEN OPersist(c, p, new_turn_prepare(p))
    ELSE /\ invs' = [invs EXCEPT ![c] = [p EXCEPT !.pc = "tts"]]
         /\ UNCHANGED turn_rows

\* Caller c calls an entry point for its device: session, seq from the rows
\* committed so far, upload of the utterance; it then awaits the recognizer.
O_Begin(c) ==
    /\ invs[c].pc = "idle"
    /\ Len(turn_rows) + Cardinality(InFlight) < MaxRows
    /\ \E entry \in EntryPoints, sid \in 0..(chat_sessions + 1), upload_ok \in BOOLEAN :
         LET p0 == [PipeIdle EXCEPT !.entry = entry]
             s == get_or_create_session(chat_sessions, sid)
             seq == next_turn_seq(turn_rows, s.id)
             p1 == [p0 EXCEPT !.session_arg = sid, !.session_id = s.id, !.seq = seq]
         IN  /\ s.n <= MaxSessions
             /\ IF ~s.ok
                THEN /\ ORaise(c, p0, "get_or_create_session")
                     /\ UNCHANGED chat_sessions
                ELSE /\ chat_sessions' = s.n
                     /\ IF upload_ok
                        THEN /\ invs' = [invs EXCEPT ![c] =
                                           [p1 EXCEPT !.pc = "asr"]]
                             /\ UNCHANGED turn_rows
                        ELSE ORaise(c, p1, "save_user_wav")
    /\ UNCHANGED pipe
    /\ UNCHANGED <<vadVars, wsVars, sendVars, storeVars, segVars, chunkVars, bufVars, replyVars, otpVars>>

\* the recognizer of caller c returns or raises; then the input-safety check
O_Asr(c) ==
    /\ invs[c].pc = "asr"
    /\ \E asr_ok \in BOOLEAN, in_risk \in BOOLEAN :
         LET p1 == invs[c]
         IN  IF ~asr_ok
             THEN ORaise(c, invs[c], "asr")
             ELSE IF in_risk
             THEN OAfterReply(c, blocked_input(p1))
             ELSE /\ invs' = [invs EXCEPT ![c] = [p1 EXCEPT !.pc = "chat"]]
                  /\ UNCHANGED turn_rows
    /\ UNCHANGED <<chat_sessions, pipe>>
    /\ UNCHANGED <<vadVars, wsVars, sendVars, storeVars, segVars, chunkVars, bufVars, replyVars, otpVars>>

\* provider.chat of caller c returns or raises; then _sanitize_reply and the
\* output-safety check
O_Chat(c) ==
    /\ invs[c].pc = "chat"
    /\ \E res \in LlmReplies, out_risk \in BOOLEAN :
         LET candidate == sanitize_reply(strip(res))
             p1 == invs[c]
         IN  IF res = "fail"
             THEN ORaise(c, invs[c], "chat")
             ELSE IF out_risk
             THEN OAfterReply(c, blocked_output(p1, candidate))
             ELSE OAfterReply(c, [p1 EXCEPT !.reply = candidate])
    /\ UNCHANGED <<chat_sessions, pipe>>
    /\ UNCHANGED <<vadVars, wsVars, sendVars, storeVars, segVars, chunkVars, bufVars, replyVars, otpVars>>

\* handle_turn and handle_turn_stream of caller c: synthesis, upload of the
\* reply audio, then the Turn row
O_Tts(c) ==
    /\ invs[c].pc = "tts"
    /\ \E tts_ok \in BOOLEAN, upload_ok \in BOOLEAN :
         IF ~tts_ok
         THEN ORaise(c, invs[c], "tts")
         ELSE IF ~upload_ok
         THEN ORaise(c, invs[c], "save_reply_wav")
         ELSE OPersist(c, invs[c], new_turn_handle(invs[c]))
    /\ UNCHANGED <<chat_sessions, pipe>>
    /\ UNCHANGED <<vadVars, wsVars, sendVars, storeVars, segVars, chunkVars, bufVars, replyVars, otpVars>>

(***************************************************************************)
(* prepare_turn: the text of the reply                                     *)
(*                                                                         *)
(* Strings are sequences of words.  "d" and its capitalized form "D" stand *)
(* for one of the six baseline keywords of _sanitize_reply; "g" stands for *)
(* a word of both canned phrases (they end '玩具、动画片、游戏'); "y" is   *)
(* the default toy name, "u" and "v" the rest of the two phrases, "x" any  *)
(* other word.  The verdicts of app.domain.safety are inputs.              *)
(***************************************************************************)
TopicChars == {"g", "d", ",", " "}

ReplyChars == {"g", "D", "x", " "}

\* what Child.forbidden_topics can hold (None is the empty string)
TopicStrings == UNION {[1..n -> TopicChars] : n \in 0..MaxTopicsLen}

\* what provider.chat can return
Replies == UNION {[1..n -> ReplyChars] : n \in 0..MaxReplyLen}

ToyNames == {<<>>, <<"x">>}

NoReplyCall ==
    [forbidden_topics |-> <<>>, toy_name |-> <<>>, raw |-> <<>>,
     in_risk |-> FALSE, out_risk |-> FALSE]

ReplyInit == reply_pc = "none" /\ reply_in = NoReplyCall /\ reply_out = <<>>

\* str.split(","), the pieces in order
RECURSIVE str_split(_, _)
str_split(s, piece) ==
    IF s = <<>> THEN <<piece>>
    ELSE IF Head(s) = "," THEN <<piece>> \o str_split(Tail(s), <<>>)
    ELSE str_split(Tail(s), Append(piece, Head(s)))

\* _split_str: the stripped pieces that are not empty
split_str(s) ==
    IF s = <<>> THEN {}
    ELSE LET pieces == str_split(s, <<>>)
         IN  {str_strip(pieces[i]) : i \in DOMAIN pieces} \ {<<>>}

\* str.lower
lower(s) == [i \in DOMAIN s |-> IF s[i] = "D" THEN "d" ELSE s[i]]

\* 'kw in text'
contains(text, kw) ==
    \E i \in 0..(Len(text) - Len(kw)) : SubSeq(text, i + 1, i + Len(kw)) = kw

\* the keywords of lines 615-622 that are not the child's
BaselineKeywords == {<<"d">>}

\* _safe_reply
safe_reply_text(toy_name) ==
    (IF toy_name # <<>> THEN toy_name ELSE <<"y">>) \o <<"v", "g">>

\* _sanitize_reply
sanitize_reply_text(forbidden_topics, reply_text) ==
    LET risk_keywords == split_str(forbidden_topics) \cup BaselineKeywords
        lowered == lower(reply_text)
        contains_risk ==
            \E kw \in risk_keywords : kw # <<>> /\ contains(lowered, lower(kw))
    IN  IF reply_text = <<>> \/ contains_risk
        THEN <<"y", "u", "g">>
        ELSE reply_text

\* prepare_turn, lines 239-265: reply_text_final
reply_text_final(c) ==
    IF c.in_risk
    THEN safe_reply_text(c.toy_name)
    ELSE LET candidate == sanitize_reply_text(c.forbidden_topics, str_strip(c.raw))
         IN  IF c.out_risk THEN safe_reply_text(c.toy_name) ELSE candidate

\* prepare_turn settles the reply of the call reply_in
G_Reply ==
    /\ reply_pc = "call"
    /\ reply_out' = reply_text_final(reply_in)
    /\ reply_pc' = "done"
    /\ UNCHANGED reply_in
    /\ UNCHANGED <<vadVars, wsVars, pipeVars, sendVars, storeVars, segVars, chunkVars, overlapVars, bufVars, otpVars>>

(***************************************************************************)
(* OtpService                                                              *)
(*                                                                         *)
(* One phone number.  otp is its OtpRecord in _store (NoRecord: none),     *)
(* otp_now is time.time(), read at multiples of the send interval, and     *)
(* otp_log records the outcome of the last call, the number of             *)
(* verifications that failed on a wrong code since the last one that       *)
(* succeeded, and when that number reached OTP_MAX_VERIFY_FAILS.           *)
(***************************************************************************)
OTP_TTL_SECONDS == 300

OTP_SEND_INTERVAL_SECONDS == 60

OTP_MAX_VERIFY_FAILS == 5

\* 'rec.locked_until = now + 300'
LockSeconds == 300

SMS_FIXED_CODE == "123456"

\* the code that was sent and another one
Codes == {SMS_FIXED_CODE, "000000"}

NoRecord ==
    [sent |-> FALSE, code |-> "", expires_at |-> 0, last_sent_at |-> 0,
     fail_count |-> 0, locked_until |-> 0]

OtpInit ==
    /\ otp = NoRecord
    /\ otp_now = 0
    /\ otp_log = [call |-> "none", result |-> "none", fails |-> 0, full_at |-> 0]

\* the result of the call is logged; a verification that fails on the code
\* is counted, one that succeeds starts the count again
Log(call, result) ==
    LET n == IF result = "OTP_INVALID" /\ otp_log.fails < OTP_MAX_VERIFY_FAILS
             THEN otp_log.fails + 1
             ELSE IF call = "verify_code" /\ result = "ok" THEN 0
             ELSE otp_log.fails
    IN  otp_log' = [call |-> call, result |-> result, fails |-> n,
                    full_at |-> IF n = OTP_MAX_VERIFY_FAILS /\ otp_log.fails < n
                                THEN otp_now
                                ELSE IF n = 0 THEN 0 ELSE otp_log.full_at]

\* 'rec.locked_until and now < rec.locked_until'
locked(rec, now) == rec.locked_until # 0 /\ now < rec.locked_until

\* send_code
send_code ==
    /\ IF otp.sent /\ locked(otp, otp_now)
       THEN /\ Log("send_code", "OTP_LOCKED")
            /\ UNCHANGED otp
       ELSE IF otp.sent /\ otp_now - otp.last_sent_at < OTP_SEND_INTERVAL_SECONDS
       THEN /\ Log("send_code", "OTP_TOO_FREQUENT")
            /\ UNCHANGED otp
       ELSE /\ otp' = [sent |-> TRUE, code |-> SMS_FIXED_CODE,
                       expires_at |-> otp_now + OTP_TTL_SECONDS,
                       last_sent_at |-> otp_now, fail_count |-> 0,
                       locked_until |-> 0]
            /\ Log("send_code", "ok")
    /\ UNCHANGED otp_now
    /\ UNCHANGED <<vadVars, wsVars, pipeVars, sendVars, storeVars, segVars, chunkVars, overlapVars, bufVars, replyVars>>

\* verify_code
verify_code(code) ==
    /\ IF ~otp.sent
       THEN /\ Log("verify_code", "OTP_NOT_SENT")
            /\ UNCHANGED otp
       ELSE IF locked(otp, otp_now)
       THEN /\ Log("verify_code", "OTP_LOCKED")
            /\ UNCHANGED otp
       ELSE IF otp_now > otp.expires_at
       THEN /\ Log("verify_code", "OTP_EXPIRED")
            /\ UNCHANGED otp
       ELSE IF code # otp.code
       THEN /\ otp' = [otp EXCEPT
                         !.fail_count = @ + 1,
                         !.locked_until =
                            IF otp.fail_count + 1 >= OTP_MAX_VERIFY_FAILS
                            THEN otp_now + LockSeconds
                            ELSE @]
            /\ Log("verify_code", "OTP_INVALID")
       ELSE /\ otp' = NoRecord
            /\ Log("verify_code", "ok")
    /\ UNCHANGED otp_now
    /\ UNCHANGED <<vadVars, wsVars, pipeVars, sendVars, storeVars, segVars, chunkVars, overlapVars, bufVars, replyVars>>

\* time passes between two calls
OtpTick ==
    /\ otp_now < MaxTicks * OTP_SEND_INTERVAL_SECONDS
    /\ otp_now' = otp_now + OTP_SEND_INTERVAL_SECONDS
    /\ UNCHANGED <<otp, otp_log>>
    /\ UNCHANGED <<vadVars, wsVars, pipeVars, sendVars, storeVars, segVars, chunkVars, overlapVars, bufVars, replyVars>>

(***************************************************************************)
(* VoiceWsHandler.run: data                                                *)
(***************************************************************************)
Turns == 1..MaxTurns

\* a frame on the websocket: the JSON event's type and fields, or "audio";
\* task tells which task wrote it ("main" for the receive loop)
Frame(type, tid, seg, who, reason) ==
    [type |-> type, turn_id |-> tid, seg_idx |-> seg, task |-> who,
     reason |-> reason, can_resume |-> FALSE]

NoFrame == Frame("none", 0, 0, "", "")

NoMsg == [kind |-> "none", start |-> FALSE, end |-> FALSE, ctx |-> 0]

NoMetrics == [kind |-> "none", seg_idx |-> -1, seg_count |-> -1, resume_count |-> -1]

NoTurn == [status |-> "none", resume_count |-> 0, metrics |-> NoMetrics, audio |-> <<>>]

NoCtx == [nseg |-> 0, seg_idx |-> 0, pcm_buffer |-> <<>>, resume_count |-> 0]

NoCtl == [type |-> "none", turn_id |-> 0, seg_idx |-> 0]

NoTask == [pc |-> "none", turn |-> 0]

\* PlaybackContext(...) as built by run() for a new draft with n segments
PlaybackContext(n) ==
    [nseg |-> n, seg_idx |-> 0, pcm_buffer |-> <<>>, resume_count |-> 0]

\* _pcm_to_wav_bytes: a WAV header followed by the samples
pcm_to_wav_bytes(pcm) == <<"RIFF">> \o pcm

\* VoiceChatService.update_turn_runtime; rc = -1 and metrics = NoMetrics
\* stand for the defaults None
update_turn_runtime(T, tid, status, rc, metrics) ==
    IF T[tid].status = "none"
    THEN T
    ELSE [T EXCEPT ![tid].status = status,
                   ![tid].resume_count = IF rc = -1 THEN @ ELSE rc,
                   ![tid].metrics = IF metrics = NoMetrics THEN @ ELSE metrics]

\* VoiceChatService.finalize_turn_reply_audio
finalize_turn_reply_audio(T, tid, wav, status, metrics) ==
    IF T[tid].status = "none"
    THEN T
    ELSE [T EXCEPT ![tid].audio = wav,
                   ![tid].status = status,
                   ![tid].metrics = IF metrics = NoMetrics THEN @ ELSE metrics]

\* the two places a running task can be: "cur" is playback_task, "old" is a
\* task playback_task no longer refers to
Slots == {"cur", "old"}

Task(s) == IF s = "cur" THEN playback_task ELSE superseded

\* the asyncio.Event a task reads: playback_cancel for the current task;
\* start_playback has set the event of a task before it replaces it
CancelSet(s) == IF s = "cur" THEN playback_cancel ELSE TRUE

\* "not task.done()" for a task object
Running(tk) == tk.pc \notin {"none", "done", "cancelled"}

\* "playback_task is not None and not playback_task.done()"
TaskLive == Running(playback_task)

NumTurns == Cardinality({tid \in Turns : turns[tid].status # "none"})

\* the PlaybackContext objects still referenced: by playback_ctx, by the
\* local ctx of run() (pend), or by the closure of a running task; the
\* others are garbage
Collect(CX, pctx, pend, t1, t2) ==
    [tid \in Turns |->
        IF \/ tid = pctx
           \/ tid = pend
           \/ (Running(t1) /\ t1.turn = tid)
           \/ (Running(t2) /\ t2.turn = tid)
        THEN CX[tid]
        ELSE NoCtx]

\* The connection names a Turn row only through a PlaybackContext
\* (ctx.turn_id), so the row of a turn whose context is garbage is out of
\* its reach: the model keeps that such a row exists, not what it holds.
StoredTurn == [NoTurn EXCEPT !.status = "stored"]

Archive(TR, CX) ==
    [tid \in Turns |->
        IF TR[tid].status # "none" /\ CX[tid] = NoCtx THEN StoredTurn ELSE TR[tid]]

\* detector.process(chunk): the edges a chunk can produce and the state
\* it can leave the detector in, <<start, end, in_speech after>>.  The
\* frames of the chunk are the input; process ORs the edges of its frames,
\* and edges alternate, the first being a start iff the detector was not
\* in speech.
DetectorOutcomes(din) ==
    IF din
    THEN {<<FALSE, FALSE, TRUE>>, <<FALSE, TRUE, FALSE>>,
          <<TRUE, TRUE, TRUE>>, <<TRUE, TRUE, FALSE>>}
    ELSE {<<FALSE, FALSE, FALSE>>, <<TRUE, FALSE, TRUE>>,
          <<TRUE, TRUE, FALSE>>, <<TRUE, TRUE, TRUE>>}

WsInit ==
    /\ mpc = "recv"
    /\ msg = NoMsg
    /\ in_speech = FALSE
    /\ current_pcm = FALSE
    /\ det_in_speech = FALSE
    /\ playback_ctx = 0
    /\ playback_task = NoTask
    /\ playback_cancel = FALSE
    /\ superseded = NoTask
    /\ ctx = [tid \in Turns |-> NoCtx]
    /\ turns = [tid \in Turns |-> NoTurn]
    /\ sent = Frame("ready", 0, 0, "main", "")
    /\ wire_ctl = NoCtl

(***************************************************************************)
(* start_playback._runner: one action per await of the task                *)
(***************************************************************************)
mainVars == <<mpc, msg, in_speech, current_pcm, det_in_speech, playback_cancel>>

\* the task in slot s moves to the await pc
Goto(s, pc) ==
    /\ playback_task' = IF s = "cur" THEN [playback_task EXCEPT !.pc = pc]
                        ELSE playback_task
    /\ superseded' = IF s = "old" THEN [superseded EXCEPT !.pc = pc]
                     ELSE superseded

\* the task in slot s returns; pctx is playback_ctx as it leaves it
Return(s, pctx, TR) ==
    LET CX == Collect(ctx, pctx, msg.ctx,
                      IF s = "cur" THEN NoTask ELSE playback_task,
                      IF s = "old" THEN NoTask ELSE superseded)
    IN  /\ playback_task' = IF s = "cur" THEN [playback_task EXCEPT !.pc = "done"]
                            ELSE playback_task
        /\ superseded' = IF s = "old" THEN NoTask ELSE superseded
        /\ playback_ctx' = pctx
        /\ ctx' = CX
        /\ turns' = Archive(TR, CX)

\* Variant of AfterLoop whose finalization is not in a try of its own: when
\* the write raises, the task lands in the except branch of the runner.
AfterLoop_unguarded(s, c) ==
    LET tid == Task(s).turn
    IN  IF CancelSet(s)
        THEN /\ Goto(s, "aPaused")
             /\ ctx' = [ctx EXCEPT ![tid] = c]
             /\ sent' = [Frame("tts_paused", tid, c.seg_idx, s, "")
                            EXCEPT !.can_resume = TRUE]
             /\ wire_ctl' = [type |-> "tts_paused", turn_id |-> tid,
                             seg_idx |-> c.seg_idx]
             /\ UNCHANGED <<turns, playback_ctx>>
        ELSE \/ /\ Goto(s, "aTurnEnd")
                /\ ctx' = [ctx EXCEPT ![tid] = c]
                /\ turns' = finalize_turn_reply_audio(turns, tid,
                               pcm_to_wav_bytes(c.pcm_buffer), "completed",
                               [kind |-> "final", seg_idx |-> -1,
                                seg_count |-> c.nseg,
                                resume_count |-> c.resume_count])
                /\ sent' = Frame("turn_end", tid, 0, s, "")
                /\ UNCHANGED <<wire_ctl, playback_ctx>>
             \/ /\ db_fails
                /\ Goto(s, "aError")
                /\ ctx' = [ctx EXCEPT ![tid] = c]
                /\ sent' = Frame("error", 0, 0, s, "playback_failed")
                /\ UNCHANGED <<turns, wire_ctl, playback_ctx>>

\* lines 201-265: after the loop, either the pause or the completion
AfterLoop(s, c) ==
    LET tid == Task(s).turn
    IN  IF CancelSet(s)
        THEN /\ Goto(s, "aPaused")
             /\ ctx' = [ctx EXCEPT ![tid] = c]
             /\ sent' = [Frame("tts_paused", tid, c.seg_idx, s, "")
                            EXCEPT !.can_resume = TRUE]
             /\ wire_ctl' = [type |-> "tts_paused", turn_id |-> tid,
                             seg_idx |-> c.seg_idx]
             /\ UNCHANGED <<turns, playback_ctx>>
        ELSE /\ Goto(s, "aTurnEnd")
             /\ ctx' = [ctx EXCEPT ![tid] = c]
             /\ turns' \in Commit(turns,
                            finalize_turn_reply_audio(turns, tid,
                               pcm_to_wav_bytes(c.pcm_buffer), "completed",
                               [kind |-> "final", seg_idx |-> -1,
                                seg_count |-> c.nseg,
                                resume_count |-> c.resume_count]))
             /\ sent' = Frame("turn_end", tid, 0, s, "")
             /\ UNCHANGED <<wire_ctl, playback_ctx>>

\* lines 184-189: the loop test, then into tts_stream of the next segment
LoopHead(s, c) ==
    LET tid == Task(s).turn
    IN  IF c.seg_idx < c.nseg /\ ~CancelSet(s)
        THEN /\ Goto(s, "stream")
             /\ ctx' = [ctx EXCEPT ![tid] = c]
             /\ sent' = NoFrame
             /\ UNCHANGED <<turns, wire_ctl, playback_ctx>>
        ELSE AfterLoop(s, c)

\* lines 177-181: first run of the task, up to the send of tts_start
R_TtsStart(s) ==
    /\ Task(s).pc = "new"
    /\ Goto(s, "aTtsStart")
    /\ sent' = Frame("tts_start", Task(s).turn, 0, s, "")
    /\ UNCHANGED <<ctx, turns, wire_ctl, playback_ctx>>
    /\ UNCHANGED mainVars /\ UNCHANGED <<vadVars, pipeVars, sendVars, storeVars, segVars, chunkVars, overlapVars, bufVars, replyVars, otpVars>>

\* Variant of R_AfterTtsStart that plays from the first segment again.
R_AfterTtsStart_fromzero(s) ==
    /\ Task(s).pc = "aTtsStart"
    /\ LoopHead(s, [ctx[Task(s).turn] EXCEPT !.seg_idx = 0])
    /\ UNCHANGED mainVars /\ UNCHANGED <<vadVars, pipeVars, sendVars, storeVars, segVars, chunkVars, overlapVars, bufVars, replyVars, otpVars>>

\* line 181 returns: enter the loop at ctx.seg_idx
R_AfterTtsStart(s) ==
    /\ Task(s).pc = "aTtsStart"
    /\ LoopHead(s, ctx[Task(s).turn])
    /\ UNCHANGED mainVars /\ UNCHANGED <<vadVars, pipeVars, sendVars, storeVars, segVars, chunkVars, overlapVars, bufVars, replyVars, otpVars>>

\* lines 189-195: tts_stream yields a chunk (its bytes are the token
\* "pcm"); it is buffered and sent, and the task waits for the next item
R_Chunk(s) ==
    LET tid == Task(s).turn
    IN  /\ Task(s).pc = "stream"
        /\ Len(ctx[tid].pcm_buffer) < MaxPcm
        /\ ctx' = [ctx EXCEPT ![tid].pcm_buffer = Append(@, "pcm")]
        /\ sent' = Frame("audio", tid, ctx[tid].seg_idx, s, "")
        /\ Goto(s, "stream")
        /\ UNCHANGED <<turns, wire_ctl, playback_ctx>>
        /\ UNCHANGED mainVars /\ UNCHANGED <<vadVars, pipeVars, sendVars, storeVars, segVars, chunkVars, overlapVars, bufVars, replyVars, otpVars>>

\* lines 189, 197-199: the segment's stream ends
R_StreamEnd(s) ==
    LET tid == Task(s).turn
    IN  /\ Task(s).pc = "stream"
        /\ IF CancelSet(s)
           THEN AfterLoop(s, ctx[tid])
           ELSE LoopHead(s, [ctx[tid] EXCEPT !.seg_idx = @ + 1])
        /\ UNCHANGED mainVars /\ UNCHANGED <<vadVars, pipeVars, sendVars, storeVars, segVars, chunkVars, overlapVars, bufVars, replyVars, otpVars>>

\* Variant of R_StreamFail whose except branch only reports.
R_StreamFail_report(s) ==
    /\ Task(s).pc = "stream"
    /\ sent' = Frame("error", 0, 0, s, "playback_failed")
    /\ Goto(s, "aError")
    /\ UNCHANGED <<ctx, turns, wire_ctl, playback_ctx>>
    /\ UNCHANGED mainVars /\ UNCHANGED <<vadVars, pipeVars, sendVars, storeVars, segVars, chunkVars, overlapVars, bufVars, replyVars, otpVars>>

\* lines 189, 268-275: tts_stream raises; the except branch
R_StreamFail(s) ==
    /\ Task(s).pc = "stream"
    /\ turns' \in IF playback_ctx # 0
                  THEN Commit(turns, update_turn_runtime(turns, playback_ctx,
                                                         "error", -1, NoMetrics))
                  ELSE {turns}
    /\ sent' = Frame("error", 0, 0, s, "playback_failed")
    /\ Goto(s, "aError")
    /\ UNCHANGED <<ctx, wire_ctl, playback_ctx>>
    /\ UNCHANGED mainVars /\ UNCHANGED <<vadVars, pipeVars, sendVars, storeVars, segVars, chunkVars, overlapVars, bufVars, replyVars, otpVars>>

\* lines 208-234: tts_paused is sent; persist the snapshot and return
R_AfterPaused(s) ==
    LET tid == Task(s).turn
        c == ctx[tid]
        snap == [kind |-> "snapshot", seg_idx |-> c.seg_idx,
                 seg_count |-> c.nseg, resume_count |-> c.resume_count]
    IN  /\ Task(s).pc = "aPaused"
        /\ \E TR \in Commit(turns,
                  IF c.pcm_buffer # <<>>
                  THEN finalize_turn_reply_audio(turns, tid,
                          pcm_to_wav_bytes(c.pcm_buffer), "interrupted", snap)
                  ELSE update_turn_runtime(turns, tid, "interrupted",
                          c.resume_count, snap)) :
              Return(s, playback_ctx, TR)
        /\ sent' = NoFrame
        /\ UNCHANGED wire_ctl
        /\ UNCHANGED mainVars /\ UNCHANGED <<vadVars, pipeVars, sendVars, storeVars, segVars, chunkVars, overlapVars, bufVars, replyVars, otpVars>>

\* line 265: turn_end is sent; send tts_end
R_AfterTurnEnd(s) ==
    /\ Task(s).pc = "aTurnEnd"
    /\ Goto(s, "aTtsEnd")
    /\ sent' = Frame("tts_end", Task(s).turn, 0, s, "")
    /\ UNCHANGED <<ctx, turns, wire_ctl, playback_ctx>>
    /\ UNCHANGED mainVars /\ UNCHANGED <<vadVars, pipeVars, sendVars, storeVars, segVars, chunkVars, overlapVars, bufVars, replyVars, otpVars>>

\* Variant of R_AfterTtsEnd that returns without dropping the context.
R_AfterTtsEnd_keep(s) ==
    /\ Task(s).pc = "aTtsEnd"
    /\ Return(s, playback_ctx, turns)
    /\ sent' = NoFrame
    /\ UNCHANGED wire_ctl
    /\ UNCHANGED mainVars /\ UNCHANGED <<vadVars, pipeVars, sendVars, storeVars, segVars, chunkVars, overlapVars, bufVars, replyVars, otpVars>>

\* line 267: tts_end is sent; drop the context and return
R_AfterTtsEnd(s) ==
    /\ Task(s).pc = "aTtsEnd"
    /\ Return(s, 0, turns)
    /\ sent' = NoFrame
    /\ UNCHANGED wire_ctl
    /\ UNCHANGED mainVars /\ UNCHANGED <<vadVars, pipeVars, sendVars, storeVars, segVars, chunkVars, overlapVars, bufVars, replyVars, otpVars>>

\* line 275 returns: the task ends
R_AfterError(s) ==
    /\ Task(s).pc = "aError"
    /\ Return(s, playback_ctx, turns)
    /\ sent' = NoFrame
    /\ UNCHANGED wire_ctl
    /\ UNCHANGED mainVars /\ UNCHANGED <<vadVars, pipeVars, sendVars, storeVars, segVars, chunkVars, overlapVars, bufVars, replyVars, otpVars>>

(***************************************************************************)
(* VoiceWsHandler.run: the receive loop, one action per await              *)
(***************************************************************************)
playVars == <<playback_ctx, playback_task, playback_cancel, superseded, ctx, turns,
              wire_ctl>>

\* Variant of resume_count_next that forgets the increment.
resume_count_same(c) == c.resume_count

\* line 138: ctx.resume_count += 1
resume_count_next(c) == c.resume_count + 1

\* Variant of StartTail that keeps the context it already holds.
StartTail_keepctx(tid, is_resume, old, CX, TR) ==
    LET rc == IF is_resume THEN resume_count_next(CX[tid]) ELSE CX[tid].resume_count
        still == IF old.pc \notin {"none", "done"} THEN old
                 ELSE IF Running(superseded) THEN superseded ELSE NoTask
        CX2 == Collect([CX EXCEPT ![tid].resume_count = rc], tid, 0, still, NoTask)
    IN  /\ playback_ctx' = (IF playback_ctx # 0 THEN playback_ctx ELSE tid)
        /\ playback_cancel' = FALSE
        /\ playback_task' = [pc |-> "new", turn |-> tid]
        /\ superseded' = still
        /\ ctx' = CX2
        /\ \E TR2 \in Commit(TR, update_turn_runtime(TR, tid, "speaking", rc,
                                                      NoMetrics)) :
              turns' = Archive(TR2, CX2)
        /\ sent' = IF is_resume
                   THEN Frame("resume_started", tid, CX[tid].seg_idx, "main", "")
                   ELSE Frame("turn_started", tid, 0, "main", "")
        /\ wire_ctl' = [type |-> IF is_resume THEN "resume_started" ELSE "turn_started",
                        turn_id |-> tid, seg_idx |-> CX[tid].seg_idx]
        /\ mpc' = "recv"
        /\ msg' = NoMsg

\* start_playback, lines 134-173 and 277: from "playback_ctx = ctx" to
\* create_task.  old is the task playback_task referred to, CX and TR are
\* the contexts and rows, as the calling step has left them.  superseded
\* keeps the replaced task object when it did not end by itself.
StartTail(tid, is_resume, old, CX, TR) ==
    LET rc == IF is_resume THEN resume_count_next(CX[tid]) ELSE CX[tid].resume_count
        still == IF old.pc \notin {"none", "done"} THEN old
                 ELSE IF Running(superseded) THEN superseded ELSE NoTask
        CX2 == Collect([CX EXCEPT ![tid].resume_count = rc], tid, 0, still, NoTask)
    IN  /\ playback_ctx' = tid
        /\ playback_cancel' = FALSE
        /\ playback_task' = [pc |-> "new", turn |-> tid]
        /\ superseded' = still
        /\ ctx' = CX2
        /\ \E TR2 \in Commit(TR, update_turn_runtime(TR, tid, "speaking", rc,
                                                      NoMetrics)) :
              turns' = Archive(TR2, CX2)
        /\ sent' = IF is_resume
                   THEN Frame("resume_started", tid, CX[tid].seg_idx, "main", "")
                   ELSE Frame("turn_started", tid, 0, "main", "")
        /\ wire_ctl' = [type |-> IF is_resume THEN "resume_started" ELSE "turn_started",
                        turn_id |-> tid, seg_idx |-> CX[tid].seg_idx]
        /\ mpc' = "recv"
        /\ msg' = NoMsg

\* lines 329-334: after the start edge is dealt with: accumulate, and on an
\* end edge send speech_end and go into prepare_turn
BinTail(ins, p, m) ==
        /\ current_pcm' = (p \/ ins)
        /\ IF m.end /\ ins
           THEN /\ in_speech' = FALSE
                /\ sent' = Frame("speech_end", 0, 0, "main", "")
                /\ mpc' = "prepare"
                /\ msg' = m
           ELSE /\ in_speech' = ins
                /\ sent' = NoFrame
                /\ mpc' = "recv"
                /\ msg' = NoMsg

\* text frames a client can send: the three bare tokens, text that is not
\* JSON, JSON that is not an object, and objects with and without a type
TextFrames ==
    {"ping", "stop", "resume", "hello", " ping", "[1]", "\"stop\"", "null",
     "{}", "{\"x\":1}", "{\"type\":\"foo\"}", "{\"type\":7}",
     "{\"type\":\"ping\"}", "{\"type\":\"stop\"}", "{\"type\":\"resume\",\"x\":1}"}

\* a parsed JSON value, as far as run() looks at it: its Python type, whether
\* it is falsy, and what .get("type") gives on a dict ("None" when absent)
JValue(kind, falsy, type) == [kind |-> kind, falsy |-> falsy, type |-> type]

None == JValue("NoneType", TRUE, "None")

\* json.loads on the frames above; "raise" stands for JSONDecodeError
json_loads(s) ==
    CASE s = "[1]" -> JValue("list", FALSE, "None")
      [] s = "\"stop\"" -> JValue("str", FALSE, "stop")
      [] s = "null" -> None
      [] s = "{}" -> JValue("dict", TRUE, "None")
      [] s = "{\"x\":1}" -> JValue("dict", FALSE, "None")
      [] s = "{\"type\":\"foo\"}" -> JValue("dict", FALSE, "foo")
      [] s = "{\"type\":7}" -> JValue("dict", FALSE, "7")
      [] s = "{\"type\":\"ping\"}" -> JValue("dict", FALSE, "ping")
      [] s = "{\"type\":\"stop\"}" -> JValue("dict", FALSE, "stop")
      [] s = "{\"type\":\"resume\",\"x\":1}" -> JValue("dict", FALSE, "resume")
      [] OTHER -> JValue("raise", TRUE, "None")

\* Variant of _safe_json_loads that returns whatever value was parsed.
safe_json_loads_any(s) ==
    LET data == json_loads(s)
    IN  IF data.kind = "raise" THEN None ELSE data

\* _safe_json_loads, lines 59-66
safe_json_loads(s) ==
    LET data == json_loads(s)
    IN  IF data.kind = "dict" THEN data ELSE None

\* lines 287-296: the type run() dispatches on; "ignore" for the frames
\* dropped at "if not data"
mtype(text) ==
    IF text \in {"ping", "stop", "resume"}
    THEN text
    ELSE LET data == safe_json_loads(text)
         IN  IF data.falsy THEN "ignore" ELSE data.type

\* lines 298-300
M_Ping ==
    /\ mpc = "recv"
    /\ sent' = Frame("pong", 0, 0, "main", "")
    /\ UNCHANGED <<mpc, msg, in_speech, current_pcm, det_in_speech>>
    /\ UNCHANGED playVars /\ UNCHANGED <<vadVars, pipeVars, sendVars, storeVars, segVars, chunkVars, overlapVars, bufVars, replyVars, otpVars>>

\* lines 288-294, 314-315: text that is no JSON object, or of unknown type
M_Ignored ==
    /\ mpc = "recv"
    /\ sent' = NoFrame
    /\ UNCHANGED <<mpc, msg, in_speech, current_pcm, det_in_speech>>
    /\ UNCHANGED playVars /\ UNCHANGED <<vadVars, pipeVars, sendVars, storeVars, segVars, chunkVars, overlapVars, bufVars, replyVars, otpVars>>

\* lines 301-304
M_ResumeNoPending ==
    /\ mpc = "recv"
    /\ playback_ctx = 0
    /\ sent' = Frame("resume_rejected", 0, 0, "main", "no_pending")
    /\ UNCHANGED <<mpc, msg, in_speech, current_pcm, det_in_speech>>
    /\ UNCHANGED playVars /\ UNCHANGED <<vadVars, pipeVars, sendVars, storeVars, segVars, chunkVars, overlapVars, bufVars, replyVars, otpVars>>

\* Variant of M_ResumeAlreadySpeaking that also signals the running task.
M_ResumeAlreadySpeaking_cancel ==
    /\ mpc = "recv"
    /\ playback_ctx # 0
    /\ TaskLive
    /\ sent' = Frame("resume_rejected", 0, 0, "main", "already_speaking")
    /\ playback_cancel' = TRUE
    /\ UNCHANGED <<mpc, msg, in_speech, current_pcm, det_in_speech>>
    /\ UNCHANGED <<playback_ctx, playback_task, superseded, ctx, turns, wire_ctl>>
    /\ UNCHANGED <<vadVars, pipeVars, sendVars, storeVars, segVars, chunkVars, overlapVars, bufVars, replyVars, otpVars>>

\* lines 305-307
M_ResumeAlreadySpeaking ==
    /\ mpc = "recv"
    /\ playback_ctx # 0
    /\ TaskLive
    /\ sent' = Frame("resume_rejected", 0, 0, "main", "already_speaking")
    /\ UNCHANGED <<mpc, msg, in_speech, current_pcm, det_in_speech>>
    /\ UNCHANGED playVars /\ UNCHANGED <<vadVars, pipeVars, sendVars, storeVars, segVars, chunkVars, overlapVars, bufVars, replyVars, otpVars>>

\* line 308 and start_playback(playback_ctx, is_resume=True)
M_ResumeAccepted ==
    /\ mpc = "recv"
    /\ playback_ctx # 0
    /\ ~TaskLive
    /\ ctx[playback_ctx].resume_count < MaxResumes
    /\ StartTail(playback_ctx, TRUE, playback_task, ctx, turns)
    /\ UNCHANGED <<in_speech, current_pcm, det_in_speech>>
    /\ UNCHANGED <<vadVars, pipeVars, sendVars, storeVars, segVars, chunkVars, overlapVars, bufVars, replyVars, otpVars>>

\* Variant of M_Stop whose interrupt_playback does not look at the task first.
M_Stop_always ==
    /\ mpc = "recv"
    /\ playback_cancel' = TRUE
    /\ sent' = Frame("interrupt_requested", playback_ctx, 0, "main", "user_stop")
    /\ UNCHANGED <<mpc, msg, in_speech, current_pcm, det_in_speech>>
    /\ UNCHANGED <<playback_ctx, playback_task, superseded, ctx, turns, wire_ctl>>
    /\ UNCHANGED <<vadVars, pipeVars, sendVars, storeVars, segVars, chunkVars, overlapVars, bufVars, replyVars, otpVars>>

\* lines 310-312 and interrupt_playback("user_stop")
M_Stop ==
    /\ mpc = "recv"
    /\ IF TaskLive
       THEN /\ playback_cancel' = TRUE
            /\ sent' = Frame("interrupt_requested", playback_ctx, 0, "main", "user_stop")
       ELSE /\ playback_cancel' = playback_cancel
            /\ sent' = NoFrame
    /\ UNCHANGED <<mpc, msg, in_speech, current_pcm, det_in_speech>>
    /\ UNCHANGED <<playback_ctx, playback_task, superseded, ctx, turns, wire_ctl>>
    /\ UNCHANGED <<vadVars, pipeVars, sendVars, storeVars, segVars, chunkVars, overlapVars, bufVars, replyVars, otpVars>>

\* lines 317-334: a binary frame, up to the first await it reaches
M_Binary ==
    /\ mpc = "recv"
    /\ \E o \in DetectorOutcomes(det_in_speech) :
         LET m == [kind |-> "binary", start |-> o[1], end |-> o[2], ctx |-> 0]
         IN  /\ det_in_speech' = o[3]
             /\ IF m.start /\ ~in_speech
                THEN /\ in_speech' = TRUE
                     /\ current_pcm' = FALSE
                     /\ sent' = Frame("speech_start", 0, 0, "main", "")
                     /\ mpc' = "aSpeechStart"
                     /\ msg' = m
                ELSE BinTail(in_speech, current_pcm, m)
    /\ UNCHANGED playVars /\ UNCHANGED <<vadVars, pipeVars, sendVars, storeVars, segVars, chunkVars, overlapVars, bufVars, replyVars, otpVars>>

\* line 327 and interrupt_playback("barge_in"), after speech_start is sent
M_BargeIn ==
    /\ mpc = "aSpeechStart"
    /\ IF TaskLive
       THEN /\ playback_cancel' = TRUE
            /\ sent' = Frame("interrupt_requested", playback_ctx, 0, "main", "barge_in")
            /\ mpc' = "aInterrupt"
            /\ UNCHANGED <<msg, in_speech, current_pcm>>
       ELSE /\ playback_cancel' = playback_cancel
            /\ BinTail(in_speech, current_pcm, msg)
    /\ UNCHANGED <<playback_ctx, playback_task, superseded, ctx, turns, wire_ctl>>
    /\ UNCHANGED det_in_speech /\ UNCHANGED <<vadVars, pipeVars, sendVars, storeVars, segVars, chunkVars, overlapVars, bufVars, replyVars, otpVars>>

\* lines 329-334, after interrupt_requested is sent
M_AfterBargeIn ==
    /\ mpc = "aInterrupt"
    /\ BinTail(in_speech, current_pcm, msg)
    /\ UNCHANGED playVars
    /\ UNCHANGED det_in_speech /\ UNCHANGED <<vadVars, pipeVars, sendVars, storeVars, segVars, chunkVars, overlapVars, bufVars, replyVars, otpVars>>

\* lines 338-347: prepare_turn raises (SpeechError or any other exception)
M_PrepareFail ==
    /\ mpc = "prepare"
    /\ \E why \in {"speech_error", "turn_failed"} :
         sent' = Frame("error", 0, 0, "main", why)
    /\ mpc' = "recv"
    /\ msg' = NoMsg
    /\ UNCHANGED <<in_speech, current_pcm, det_in_speech>>
    /\ UNCHANGED playVars /\ UNCHANGED <<vadVars, pipeVars, sendVars, storeVars, segVars, chunkVars, overlapVars, bufVars, replyVars, otpVars>>

\* lines 339, 349-375 and start_playback up to its wait_for: prepare_turn
\* returns a draft whose Turn row is written with status pending
M_PrepareOk ==
    /\ mpc = "prepare"
    /\ NumTurns < MaxTurns
    /\ \E n \in 1..MaxSegs :
         LET tid == NumTurns + 1
             TR0 == [turns EXCEPT ![tid] = [NoTurn EXCEPT !.status = "pending"]]
             TR == update_turn_runtime(TR0, tid, "pending", -1,
                      [kind |-> "gen", seg_idx |-> -1, seg_count |-> n,
                       resume_count |-> -1])
             CX == [ctx EXCEPT ![tid] = PlaybackContext(n)]
         IN  IF TaskLive
             THEN /\ playback_cancel' = TRUE
                  /\ mpc' = "wait"
                  /\ msg' = [msg EXCEPT !.ctx = tid]
                  /\ turns' = TR
                  /\ ctx' = CX
                  /\ sent' = NoFrame
                  /\ UNCHANGED <<playback_ctx, playback_task, superseded, wire_ctl>>
             ELSE StartTail(tid, FALSE, playback_task, CX, TR)
    /\ UNCHANGED <<in_speech, current_pcm, det_in_speech>>
    /\ UNCHANGED <<vadVars, pipeVars, sendVars, storeVars, segVars, chunkVars, overlapVars, bufVars, replyVars, otpVars>>

\* lines 129-130: the superseded task finished within the grace period
M_WaitDone ==
    /\ mpc = "wait"
    /\ ~TaskLive
    /\ StartTail(msg.ctx, FALSE, playback_task, ctx, turns)
    /\ UNCHANGED <<in_speech, current_pcm, det_in_speech>>
    /\ UNCHANGED <<vadVars, pipeVars, sendVars, storeVars, segVars, chunkVars, overlapVars, bufVars, replyVars, otpVars>>

\* Variant of M_WaitTimeout that stops waiting without cancelling the task
\* (asyncio.wait in place of asyncio.wait_for).
M_WaitTimeout_nocancel ==
    /\ mpc = "wait"
    /\ TaskLive
    /\ StartTail(msg.ctx, FALSE, playback_task, ctx, turns)
    /\ UNCHANGED <<in_speech, current_pcm, det_in_speech>>
    /\ UNCHANGED <<vadVars, pipeVars, sendVars, storeVars, segVars, chunkVars, overlapVars, bufVars, replyVars, otpVars>>

\* Variant of M_WaitTimeout without the timeout (await playback_task): the
\* wait ends only when the task has ended.
M_WaitTimeout_await ==
    /\ mpc = "wait"
    /\ TaskLive
    /\ playback_task.pc = "done"
    /\ StartTail(msg.ctx, FALSE, playback_task, ctx, turns)
    /\ UNCHANGED <<in_speech, current_pcm, det_in_speech>>
    /\ UNCHANGED <<vadVars, pipeVars, sendVars, storeVars, segVars, chunkVars, overlapVars, bufVars, replyVars, otpVars>>

\* lines 129-132: the grace period runs out; wait_for cancels the task,
\* waits for the cancellation to take effect and raises TimeoutError
M_WaitTimeout ==
    /\ mpc = "wait"
    /\ TaskLive
    /\ StartTail(msg.ctx, FALSE, [playback_task EXCEPT !.pc = "cancelled"],
                 ctx, turns)
    /\ UNCHANGED <<in_speech, current_pcm, det_in_speech>>
    /\ UNCHANGED <<vadVars, pipeVars, sendVars, storeVars, segVars, chunkVars, overlapVars, bufVars, replyVars, otpVars>>

(***************************************************************************)
(* _runner: the audio of one turn                                          *)
(*                                                                         *)
(* One PlaybackContext played to its end through interrupts and resumes,   *)
(* with the chunks told apart: chunk i of the synthesis of segment k is    *)
(* <<k, i>>, and a segment synthesized again yields the same chunks.  pb   *)
(* is the context together with the place of its task; mark is the length  *)
(* the buffer had at the last checkpoint.  reply_audio is the object       *)
(* stored under reply_audio_path with the playback_status of the row, and  *)
(* the buffers that checkpoints were given.                                *)
(***************************************************************************)
NoPlay ==
    [pc |-> "none", nseg |-> 0, seg_idx |-> 0, pos |-> 0, pcm_buffer |-> <<>>,
     cancel |-> FALSE, resume_count |-> 0, mark |-> 0]

NoAudio == [wav |-> <<>>, status |-> "none", handed |-> <<>>]

BufInit == pb = NoPlay /\ reply_audio = NoAudio

\* the chunks tts_stream yields for segment k
SegAudio(k) == [i \in 1..MaxChunks |-> <<k, i>>]

RECURSIVE Audio(_)
\* the audio of segments 0..n-1, in order
Audio(n) == IF n = 0 THEN <<>> ELSE Audio(n - 1) \o SegAudio(n - 1)

\* lines 203-233: tts_paused, then the snapshot
Paused(c) ==
    /\ pb' = [c EXCEPT !.pc = "done", !.mark = Len(c.pcm_buffer)]
    /\ reply_audio' =
          IF c.pcm_buffer # <<>>
          THEN [wav |-> pcm_to_wav_bytes(c.pcm_buffer), status |-> "interrupted",
                handed |-> Append(reply_audio.handed,
                             [buffer |-> c.pcm_buffer,
                              since |-> SubSeq(c.pcm_buffer, c.mark + 1,
                                               Len(c.pcm_buffer))])]
          ELSE [reply_audio EXCEPT !.status = "interrupted"]

\* lines 235-266: the whole buffer is stored, status completed
Completed(c) ==
    /\ pb' = [c EXCEPT !.pc = "done"]
    /\ reply_audio' = [reply_audio EXCEPT !.wav = pcm_to_wav_bytes(c.pcm_buffer),
                                          !.status = "completed"]

\* lines 184-188, 201: the test of the while loop and what follows the loop
BufLoop(c) ==
    IF c.seg_idx < c.nseg /\ ~c.cancel
    THEN /\ pb' = [c EXCEPT !.pc = "stream", !.pos = 0]
         /\ UNCHANGED reply_audio
    ELSE IF c.cancel THEN Paused(c) ELSE Completed(c)

\* lines 189-195: the stream of the segment yields its next chunk
B_Chunk ==
    /\ pb.pc = "stream"
    /\ pb.pos < MaxChunks
    /\ pb' = [pb EXCEPT !.pos = @ + 1,
                        !.pcm_buffer = Append(@, SegAudio(pb.seg_idx)[pb.pos + 1])]
    /\ UNCHANGED reply_audio
    /\ UNCHANGED <<vadVars, wsVars, pipeVars, sendVars, storeVars, segVars, chunkVars, overlapVars, replyVars, otpVars>>

\* lines 189, 197-199: the stream ends, at the end of the segment or, the
\* cancel signal being set (should_cancel), before it
B_StreamEnd ==
    /\ pb.pc = "stream"
    /\ pb.pos = MaxChunks \/ pb.cancel
    /\ IF pb.cancel
       THEN Paused(pb)
       ELSE BufLoop([pb EXCEPT !.seg_idx = @ + 1])
    /\ UNCHANGED <<vadVars, wsVars, pipeVars, sendVars, storeVars, segVars, chunkVars, overlapVars, replyVars, otpVars>>

\* interrupt_playback, lines 112-122, while the task runs
B_Interrupt ==
    /\ pb.pc = "stream"
    /\ ~pb.cancel
    /\ pb' = [pb EXCEPT !.cancel = TRUE]
    /\ UNCHANGED reply_audio
    /\ UNCHANGED <<vadVars, wsVars, pipeVars, sendVars, storeVars, segVars, chunkVars, overlapVars, replyVars, otpVars>>

\* a resume frame for the interrupted turn, lines 296-309 and 134-173: a
\* new cancel event, resume_count, status speaking, and the new task up to
\* its first stream
B_Resume ==
    /\ pb.pc = "done"
    /\ reply_audio.status = "interrupted"
    /\ pb.resume_count < MaxResumes
    /\ pb' = [pb EXCEPT !.pc = "stream", !.pos = 0, !.cancel = FALSE,
                        !.resume_count = @ + 1]
    /\ reply_audio' = [reply_audio EXCEPT !.status = "speaking"]
    /\ UNCHANGED <<vadVars, wsVars, pipeVars, sendVars, storeVars, segVars, chunkVars, overlapVars, replyVars, otpVars>>

RunnerStep ==
    \E s \in Slots :
       \/ R_TtsStart(s)
       \/ R_AfterTtsStart(s)
       \/ R_Chunk(s)
       \/ R_StreamEnd(s)
       \/ R_StreamFail(s)
       \/ R_AfterPaused(s)
       \/ R_AfterTurnEnd(s)
       \/ R_AfterTtsEnd(s)
       \/ R_AfterError(s)

\* lines 291-315: the branch a text frame takes
branch(text) ==
    IF mtype(text) \in {"ping", "resume", "stop"} THEN mtype(text) ELSE "ignore"

\* lines 298-315: the branches
M_Control(b) ==
    \/ b = "ping" /\ M_Ping
    \/ b = "resume" /\ M_ResumeNoPending
    \/ b = "resume" /\ M_ResumeAlreadySpeaking
    \/ b = "resume" /\ M_ResumeAccepted
    \/ b = "stop" /\ M_Stop
    \/ b = "ignore" /\ M_Ignored

\* lines 284-315: one text frame
M_Text(text) == M_Control(branch(text))

MainStep ==
    \/ \E b \in {branch(text) : text \in TextFrames} : M_Control(b)
    \/ M_Binary
    \/ M_BargeIn
    \/ M_AfterBargeIn
    \/ M_PrepareFail
    \/ M_PrepareOk
    \/ M_WaitDone
    \/ M_WaitTimeout

Init ==
    /\ WsInit
    /\ OtpInit
    /\ ReplyInit
    /\ BufInit
    /\ OverlapInit
    /\ ChunkInit
    /\ SegInit
    /\ StoreInit
    /\ SendInit
    /\ PipeInit
    /\ cfg = EndpointConfig(3, 12, 15000)
    /\ det = DetectorInit
    /\ hist = <<>>

Next == MainStep \/ RunnerStep

Spec == Init /\ [][Next]_vars

\* The event loop runs a task that can run, and every synthesis stream
\* ends: a playback task that is not superseded takes its next step.
FairSpec == Spec /\ WF_vars(RunnerStep)

\* The timer of wait_for runs out: a start_playback that waits goes on.
\* Nothing is assumed about the playback tasks.
FairWaitSpec == Spec /\ WF_vars(M_WaitDone \/ M_WaitTimeout)

(***************************************************************************)
(* The connection with a transport that can go away and handler code that  *)
(* can raise.  The try of run() has 'except WebSocketDisconnect' and       *)
(* 'finally: db.close()' and no other handler; when run() is left its      *)
(* locals are gone, the playback task stays scheduled.                     *)
(***************************************************************************)
\* run() is left with the exception exc
LeaveRun(exc) ==
    /\ mpc' = exc
    /\ msg' = NoMsg
    /\ in_speech' = FALSE
    /\ current_pcm' = FALSE
    /\ sent' = NoFrame
    /\ UNCHANGED <<det_in_speech, playback_ctx, playback_task, superseded, ctx,
                   turns, wire_ctl>>
    /\ UNCHANGED <<vadVars, pipeVars, sendVars, storeVars, segVars, chunkVars, overlapVars, bufVars, replyVars, otpVars>>

\* lines 378-384: WebSocketDisconnect reaches the except clause of run()
M_Disconnect ==
    /\ mpc \in {"recv", "aSpeechStart", "aInterrupt"}
    /\ playback_cancel' = (playback_task # NoTask)
    /\ LeaveRun("disconnected")

\* lines 281-384: detector.process at line 320 or a send at one of the
\* awaits raises something that is no WebSocketDisconnect; only the finally
\* clause runs
M_Uncaught ==
    /\ mpc \in {"recv", "aSpeechStart", "aInterrupt"}
    /\ UNCHANGED playback_cancel
    /\ LeaveRun("raised")

NextFaults == Next \/ M_Disconnect \/ M_Uncaught

SpecFaults == Init /\ [][NextFaults]_vars

(***************************************************************************)
(* The detector on its own                                                 *)
(***************************************************************************)
InitVad == VadInit /\ WsInit /\ PipeInit /\ SendInit /\ StoreInit /\ SegInit /\ ChunkInit /\ OverlapInit /\ BufInit /\ ReplyInit /\ OtpInit

NextVad == VadFrame \/ VadReset

SpecVad == InitVad /\ [][NextVad]_vars

(***************************************************************************)
(* The turn pipeline on its own                                            *)
(***************************************************************************)
InitTurn == Init

NextTurn == P_Begin \/ P_Asr \/ P_Chat \/ P_Tts

SpecTurn == InitTurn /\ [][NextTurn]_vars

(***************************************************************************)
(* Two callers of the turn pipeline                                        *)
(***************************************************************************)
InitOverlap == Init

NextOverlap == \E c \in Callers : O_Begin(c) \/ O_Asr(c) \/ O_Chat(c) \/ O_Tts(c)

SpecOverlap == InitOverlap /\ [][NextOverlap]_vars

(***************************************************************************)
(* The audio of one turn on its own                                        *)
(***************************************************************************)
InitBuf ==
    /\ WsInit
    /\ OtpInit
    /\ ReplyInit
    /\ OverlapInit
    /\ SendInit
    /\ PipeInit
    /\ StoreInit
    /\ SegInit
    /\ ChunkInit
    /\ cfg = EndpointConfig(3, 12, 15000)
    /\ det = DetectorInit
    /\ hist = <<>>
    /\ \E n \in 1..MaxSegs : pb = [NoPlay EXCEPT !.pc = "stream", !.nseg = n]
    /\ reply_audio = [NoAudio EXCEPT !.status = "speaking"]

NextBuf == B_Chunk \/ B_StreamEnd \/ B_Interrupt \/ B_Resume

SpecBuf == InitBuf /\ [][NextBuf]_vars

(***************************************************************************)
(* The text of the reply on its own                                        *)
(***************************************************************************)
InitReply ==
    /\ WsInit
    /\ OtpInit
    /\ OverlapInit
    /\ BufInit
    /\ SendInit
    /\ PipeInit
    /\ StoreInit
    /\ SegInit
    /\ ChunkInit
    /\ cfg = EndpointConfig(3, 12, 15000)
    /\ det = DetectorInit
    /\ hist = <<>>
    /\ reply_pc = "call"
    /\ reply_in \in [forbidden_topics : TopicStrings, toy_name : ToyNames,
                     raw : Replies, in_risk : BOOLEAN, out_risk : BOOLEAN]
    /\ reply_out = <<>>

NextReply == G_Reply

SpecReply == InitReply /\ [][NextReply]_vars

(***************************************************************************)
(* OtpService on its own                                                   *)
(***************************************************************************)
InitOtp == Init

NextOtp == send_code \/ (\E code \in Codes : verify_code(code)) \/ OtpTick

SpecOtp == InitOtp /\ [][NextOtp]_vars

(***************************************************************************)
(* The writer on its own                                                   *)
(***************************************************************************)
InitWire == Init

NextWire ==
    \/ \E p \in Senders : S_Request(p) \/ S_Acquired(p) \/ S_Written(p)
    \/ S_Cancelled

SpecWire == InitWire /\ [][NextWire]_vars

\* The connection on a db session whose writes can raise, with a client that
\* sends audio and resume frames
InitStore ==
    /\ WsInit
    /\ OtpInit
    /\ ReplyInit
    /\ BufInit
    /\ OverlapInit
    /\ SendInit
    /\ PipeInit
    /\ SegInit
    /\ ChunkInit
    /\ db_fails = TRUE
    /\ cfg = EndpointConfig(3, 12, 15000)
    /\ det = DetectorInit
    /\ hist = <<>>

\* the client sends audio, and resume when it has been interrupted
NextStore ==
    \/ RunnerStep
    \/ M_ResumeNoPending
    \/ M_ResumeAlreadySpeaking
    \/ M_ResumeAccepted
    \/ M_Binary
    \/ M_BargeIn
    \/ M_AfterBargeIn
    \/ M_PrepareOk
    \/ M_WaitDone
    \/ M_WaitTimeout

SpecStore == InitStore /\ [][NextStore]_vars

(***************************************************************************)
(* The segmenter on its own                                                *)
(***************************************************************************)
InitSeg ==
    /\ WsInit
    /\ OtpInit
    /\ ReplyInit
    /\ BufInit
    /\ OverlapInit
    /\ SendInit
    /\ PipeInit
    /\ StoreInit
    /\ ChunkInit
    /\ cfg = EndpointConfig(3, 12, 15000)
    /\ det = DetectorInit
    /\ hist = <<>>
    /\ seg_pc = "call"
    /\ seg_in \in [text : Texts, max_chars : 1..MaxMaxChars, min_chars : 1..MaxMinChars]
    /\ seg_out = <<>>

NextSeg == Segment \/ Resegment

SpecSeg == InitSeg /\ [][NextSeg]_vars

(***************************************************************************)
(* The detector on a chunked stream                                        *)
(***************************************************************************)
InitChunk ==
    /\ WsInit
    /\ OtpInit
    /\ ReplyInit
    /\ BufInit
    /\ OverlapInit
    /\ SendInit
    /\ PipeInit
    /\ StoreInit
    /\ SegInit
    /\ cfg \in {EndpointConfig(2, 1, 15000), EndpointConfig(1, 2, 3 * FrameMs)}
    /\ det = DetectorInit
    /\ hist = <<>>
    /\ pcm_stream \in [1..MaxStreamLen -> Bytes]
    /\ feeds = [p \in Feeders |-> NoFeed]

NextChunk == \E p \in Feeders : Feed(p)

SpecChunk == InitChunk /\ [][NextChunk]_vars

(***************************************************************************)
(* Readings of the frame history used by the detector properties           *)
(***************************************************************************)
\* number of consecutive silence frames ending at frame k
SilRun(k) ==
    CHOOSE n \in 0..k :
       /\ \A m \in (k - n + 1)..k : ~hist[m].sp
       /\ (n = k \/ hist[k - n].sp)

\* the frame on which the utterance that frame k belongs to started
LastStart(k) ==
    CHOOSE s \in 0..(k - 1) :
       /\ (s = 0 \/ hist[s].st)
       /\ \A m \in (s + 1)..(k - 1) : ~hist[m].st

\* duration of the current utterance at frame k: the frames from the first
\* speech frame of the run that fired its speechStart up to frame k
UtterDur(k) == (k - LastStart(k) + cfg.speech_start_frames) * cfg.frame_ms

\* frames i..j are all speech, i is the first speech frame after silence
\* (or of the stream), and the detector is not in speech when i arrives
SpeechRun(i, j) ==
    /\ i <= j
    /\ \A m \in i..j : hist[m].sp
    /\ (i = 1 \/ ~hist[i - 1].sp)
    /\ ~hist[i].inb

(***************************************************************************)
(* Detector claims (SpecVad)                                               *)
(***************************************************************************)

\* C8 as stated: in every run of at least speech_start_frames consecutive
\* speech frames that begins while the detector is not in speech,
\* speechStart fires on the frame where the count first reaches
\* speech_start_frames and on no other frame of the run.
C8_StartExactlyOncePerRun ==
    \A i \in 1..Len(hist) : \A j \in i..Len(hist) :
       (SpeechRun(i, j) /\ j - i + 1 >= cfg.speech_start_frames)
          => \A k \in i..j :
                hist[k].st <=> (k = i + cfg.speech_start_frames - 1)

\* C8 (amended): in every such run speechStart fires on the frame where the
\* count of consecutive speech frames first reaches speech_start_frames, and
\* it fires on another frame of the run only after a speechEnd has fired
\* earlier in the run (the utterance cap ending the utterance while the
\* speech goes on).
C8_StartAtThreshold ==
    \A i \in 1..Len(hist) : \A j \in i..Len(hist) :
       (SpeechRun(i, j) /\ j - i + 1 >= cfg.speech_start_frames)
          => /\ hist[i + cfg.speech_start_frames - 1].st
             /\ \A k \in i..j :
                  (hist[k].st /\ k # i + cfg.speech_start_frames - 1)
                     => \E m \in i..(k - 1) : hist[m].en

\* Scenario A: [silence, silence, speech, speech, speech, speech] with
\* speech_start_frames = 3 has fired on the fifth frame and not on the sixth.
C8_Witness ==
    /\ cfg.speech_start_frames = 3
    /\ Len(hist) = 6
    /\ ~hist[1].sp /\ ~hist[2].sp
    /\ SpeechRun(3, 6)
    /\ hist[5].st
    /\ ~hist[6].st /\ ~hist[6].en

\* C9: while the detector is in speech, a frame that completes a run of
\* speech_end_silence_frames consecutive silence frames, or on which the
\* utterance has lasted max_utterance_ms, fires speechEnd; and between two
\* speechEnd edges there is always a speechStart.
C9_EndFires ==
    /\ \A k \in 1..Len(hist) :
          (hist[k].inb /\ (SilRun(k) >= cfg.speech_end_silence_frames
                             \/ UtterDur(k) >= cfg.max_utterance_ms))
             => hist[k].en
    /\ \A k1 \in 1..Len(hist) : \A k2 \in (k1 + 1)..Len(hist) :
          (hist[k1].en /\ hist[k2].en)
             => \E m \in (k1 + 1)..(k2 - 1) : hist[m].st

\* An utterance was ended by a run of two silence frames, started again and
\* was ended a second time.
C9_Witness ==
    /\ cfg.speech_end_silence_frames = 2
    /\ \E k1 \in 1..Len(hist) : \E k2 \in (k1 + 1)..Len(hist) :
          /\ hist[k1].en /\ hist[k1].inb /\ SilRun(k1) = 2
          /\ hist[k2].en

\* C10 as stated: speechEnd fires only in speech and only when the silence
\* run has reached speech_end_silence_frames or the utterance, measured
\* from its speechStart, has lasted max_utterance_ms.
C10_EndOnlyWhenDue ==
    \A k \in 1..Len(hist) :
       hist[k].en
          => /\ hist[k].inb
             /\ \/ SilRun(k) >= cfg.speech_end_silence_frames
                \/ UtterDur(k) >= cfg.max_utterance_ms

\* the utterance cap in frames
CapFrames == cfg.max_utterance_ms \div cfg.frame_ms

\* C11: whatever the classifier reports, a speechEnd fires at most
\* max_utterance_ms / frame_ms frames after a speechStart, and a detector
\* that is in speech has been so for fewer frames than that.
C11_EndWithinCap ==
    /\ \A k \in 1..Len(hist) :
          hist[k].st /\ k + CapFrames <= Len(hist)
             => \E j \in (k + 1)..(k + CapFrames) : hist[j].en
    /\ det.in_speech
          => \E k \in 1..Len(hist) :
                /\ hist[k].st
                /\ Len(hist) - k < CapFrames
                /\ \A j \in (k + 1)..Len(hist) : ~hist[j].en

\* speech frames only, and the utterance was ended by the cap
C11_Witness ==
    \E j \in 1..Len(hist) :
       /\ hist[j].en
       /\ \A i \in 1..j : hist[i].sp

(***************************************************************************)
(* Turn pipeline claims (SpecTurn)                                         *)
(***************************************************************************)
\* the invocation in pipe has returned
Returned(entry) == pipe.entry = entry /\ pipe.pc = "idle" /\ pipe.result = "ok"

\* the invocation in pipe made the call
Called(what) == \E i \in 1..Len(pipe.calls) : pipe.calls[i] = what

\* the row the invocation in pipe wrote
LastRow == turn_rows[Len(turn_rows)]

\* the invocation in pipe has written LastRow
WroteLastRow ==
    /\ turn_rows # <<>>
    /\ LastRow.session_id = pipe.session_id
    /\ LastRow.seq = pipe.seq

\* C12: when the input-safety check reports a violation, prepare_turn
\* returns having persisted a Turn with risk_source input, audit_action
\* block_input and the canned redirect phrase as reply, and it has called
\* neither the reply generation nor the output-safety check.
C12_InputBlocked ==
    (pipe.entry = "prepare_turn" /\ pipe.in_risk) =>
       /\ Returned("prepare_turn")
       /\ WroteLastRow
       /\ LastRow.risk_source = "input"
       /\ LastRow.audit_action = "block_input"
       /\ LastRow.reply_text = safe_reply
       /\ pipe.reply = safe_reply
       /\ ~Called("chat")
       /\ ~Called("guard_reply_output")

\* prepare_turn has returned from a blocked input
C12_Witness ==
    /\ Returned("prepare_turn")
    /\ pipe.in_risk
    /\ Called("guard_child_input")

\* C13: when the input is not blocked and the output-safety check reports
\* a violation, the reply prepare_turn persists and returns for playback is
\* the canned redirect phrase, which no generated reply equals, and the Turn
\* has risk_source output and audit_action block_output; no invocation has
\* both an input and an output violation.
C13_OutputBlocked ==
    /\ (pipe.entry = "prepare_turn" /\ pipe.out_risk) =>
          /\ Returned("prepare_turn")
          /\ WroteLastRow
          /\ LastRow.reply_text = safe_reply
          /\ pipe.reply = safe_reply
          /\ \A r \in LlmReplies : sanitize_reply(strip(r)) # safe_reply
          /\ LastRow.risk_source = "output"
          /\ LastRow.audit_action = "block_output"
    /\ ~(pipe.in_risk /\ pipe.out_risk)
    /\ \A k \in 1..Len(turn_rows) :
          turn_rows[k].risk_source \in {"none", "input", "output"}

\* prepare_turn has returned from a blocked reply
C13_Witness ==
    /\ Returned("prepare_turn")
    /\ pipe.out_risk
    /\ Called("chat")

\* C14: every persisted Turn has risk_flag exactly when its risk_source is
\* set, whichever entry point wrote it.
C14_RiskFlagIffSource ==
    \A k \in 1..Len(turn_rows) :
       turn_rows[k].risk_flag <=> turn_rows[k].risk_source # "none"

\* the rows of one session, in creation order
SessionRows(sid) == SelectSeq(turn_rows, LAMBDA r : r.session_id = sid)

\* C15: in every session the seq values of the Turns are 1..n in creation
\* order, after any sequence of invocations that returned or raised.
C15_SeqContiguous ==
    \A sid \in 1..chat_sessions :
       \A i \in 1..Len(SessionRows(sid)) : SessionRows(sid)[i].seq = i

\* two turns in one session, after an invocation that created a session and
\* then raised
C15_Witness ==
    \E sid \in 1..chat_sessions, other \in 1..chat_sessions :
       /\ Len(SessionRows(sid)) = 2
       /\ other < sid
       /\ SessionRows(other) = <<>>

\* prepare_turn is called without a session id right after a call without a
\* session id has returned, and gets as far as the recognizer
C16_Step ==
    (/\ Returned("prepare_turn")
     /\ pipe.session_arg = 0
     /\ pipe'.entry = "prepare_turn"
     /\ pipe'.session_arg = 0
     /\ pipe'.pc = "asr")
       => /\ chat_sessions' = chat_sessions
          /\ pipe'.session_id = pipe.session_id
          /\ pipe'.seq = pipe.seq + 1

\* C16: prepare_turn called without a session id uses the ChatSession of the
\* child when there is one and creates one only otherwise: the second of two
\* successive calls takes the session of the first and the seq after its seq.
C16_ResolveActiveSession == [][C16_Step]_vars

\* a step of the pipeline
C17_Step ==
    /\ pipe'.result = "raised" /\ pipe' # pipe => turn_rows' = turn_rows
    /\ turn_rows' # turn_rows =>
          /\ \E row \in {turn_rows'[Len(turn_rows')]} :
                /\ turn_rows' = Append(turn_rows, row)
                /\ pipe'.entry = "prepare_turn" =>
                      /\ row.playback_status = "pending"
                      /\ row.resume_count = 0
          /\ pipe'.result = "ok"
          /\ \A i \in 1..Len(pipe'.calls) :
                pipe'.calls[i] \in {"save_user_wav", "asr", "guard_child_input",
                                    "chat", "guard_reply_output", "tts",
                                    "save_reply_wav", "commit_turn"}
          /\ \E i \in 1..Len(pipe'.calls) : pipe'.calls[i] = "save_user_wav"
          /\ \E i \in 1..Len(pipe'.calls) : pipe'.calls[i] = "asr"
          /\ pipe'.in_risk \/ \E i \in 1..Len(pipe'.calls) : pipe'.calls[i] = "chat"

\* C17: an invocation of prepare_turn that raises (device resolution, upload
\* of the utterance, recognition, reply generation) writes no Turn row; a row
\* is written only by an invocation in which every earlier step returned, and
\* then with playback_status pending and resume_count 0.
C17_NoRowOnFailure == [][C17_Step]_vars

\* prepare_turn raised in the reply generation, after an earlier invocation
\* had written its row
C17_Witness ==
    /\ pipe.entry = "prepare_turn"
    /\ pipe.result = "raised"
    /\ pipe.calls # <<>>
    /\ pipe.calls[Len(pipe.calls)] = "chat"
    /\ Len(turn_rows) = 1
    /\ turn_rows[1].playback_status = "pending"

(***************************************************************************)
(* Properties of the playback controller and the receive loop              *)
(***************************************************************************)
LiveCtx(CX, tid) == CX[tid] # NoCtx

LiveRow(TR, tid) == TR[tid].status \notin {"none", "stored"}

\* C1: a task that start_playback has replaced is no longer running, and an
\* audio frame written to the wire comes from the current task and belongs
\* to the turn whose turn_started or resume_started was written last.
C1_NoAudioOfSupersededTurn ==
    /\ ~Running(superseded)
    /\ sent.type = "audio" => /\ sent.task = "cur"
                              /\ sent.turn_id = playback_ctx
                              /\ sent.turn_id = wire_ctl.turn_id

\* a task was cancelled at the end of the grace period, and the task of
\* the new turn has written audio
C1_Witness ==
    /\ superseded.pc = "cancelled"
    /\ sent.type = "audio"
    /\ sent.turn_id # superseded.turn

\* C2: a resume is accepted (resume_started is written) only when the
\* persisted status of the turn of the current context is interrupted;
\* a turn that reached completed or error is never restarted.
C2_ResumeOnlyWhenInterrupted ==
    [][sent'.type = "resume_started"
         => /\ playback_ctx # 0
            /\ turns[playback_ctx].status = "interrupted"]_vars

C3_Step ==
    /\ sent'.type = "resume_started"
         => /\ playback_ctx' = playback_ctx
            /\ turns'[playback_ctx].status = "speaking"
            /\ ctx'[playback_ctx].resume_count = ctx[playback_ctx].resume_count + 1
            /\ turns'[playback_ctx].resume_count
                  = turns[playback_ctx].resume_count + 1
            /\ turns'[playback_ctx].resume_count = ctx'[playback_ctx].resume_count
    /\ sent'.type # "resume_started"
         => \A tid \in Turns :
               /\ LiveCtx(ctx, tid) /\ LiveCtx(ctx', tid)
                    => ctx'[tid].resume_count = ctx[tid].resume_count
               /\ LiveRow(turns, tid) /\ LiveRow(turns', tid)
                    => turns'[tid].resume_count = turns[tid].resume_count
    /\ \A tid \in Turns :
          /\ turns'[tid].status = "interrupted" /\ turns[tid].status # "interrupted"
               => turns[tid].status = "speaking" /\ playback_cancel
          /\ turns'[tid].status = "completed" /\ turns[tid].status # "completed"
               => turns[tid].status = "speaking" /\ ~playback_cancel

\* C3: an accepted resume sets the persisted status to speaking and adds
\* exactly 1 to resume_count in memory and in the store, and no other step
\* changes resume_count; the status becomes interrupted only from speaking
\* with the cancel signal set, and completed only from speaking with the
\* signal not set; a speaking turn whose task runs reaches interrupted,
\* completed or error, unless a new turn's start_playback comes to wait
\* for its task.
C3_StopResumeComplete ==
    /\ [][C3_Step]_vars
    /\ (TaskLive /\ playback_ctx # 0 /\ turns[playback_ctx].status = "speaking")
          ~> (\/ mpc = "wait"
              \/ /\ playback_ctx # 0
                 /\ turns[playback_ctx].status
                       \in {"interrupted", "completed", "error"})

\* a turn that was paused and resumed has completed
C3_Witness ==
    \E tid \in Turns :
       /\ turns[tid].status = "completed"
       /\ turns[tid].resume_count = 1
       /\ turns[tid].metrics.resume_count = 1

C4_Step ==
    /\ \A tid \in Turns :
          LiveCtx(ctx, tid) /\ LiveCtx(ctx', tid)
             => /\ ctx'[tid].seg_idx \in {ctx[tid].seg_idx, ctx[tid].seg_idx + 1}
                /\ ctx'[tid].seg_idx # ctx[tid].seg_idx
                     => /\ playback_task.turn = tid
                        /\ playback_task.pc = "stream"
    /\ sent'.type = "audio"
         => /\ sent'.seg_idx = ctx'[sent'.turn_id].seg_idx
            /\ sent'.seg_idx < ctx'[sent'.turn_id].nseg
    /\ sent'.type = "resume_started"
         => /\ sent'.seg_idx = ctx[playback_ctx].seg_idx
            /\ ctx'[playback_ctx].seg_idx = ctx[playback_ctx].seg_idx
            /\ wire_ctl.type = "tts_paused"
                 => /\ wire_ctl.turn_id = playback_ctx
                    /\ wire_ctl.seg_idx = sent'.seg_idx
    /\ \A tid \in Turns :
          turns'[tid].status = "completed"
             => ctx'[tid].seg_idx = ctx'[tid].nseg

\* C4: resume_started repeats the seg_idx of tts_paused, which is the
\* cursor of the context; the cursor never goes back and moves on by one
\* only when the stream of the segment it points at has ended; every audio
\* frame is of the segment under the cursor; the turn completes only with
\* the cursor past the last segment.
C4_ResumeAtStoredSegment == [][C4_Step]_vars

\* a turn paused at a segment after the first has been resumed and has
\* completed
C4_Witness ==
    /\ wire_ctl.type = "resume_started"
    /\ wire_ctl.seg_idx >= 1
    /\ turns[wire_ctl.turn_id].status = "completed"

C5_Step ==
    /\ playback_ctx # 0 /\ playback_cancel /\ LiveCtx(ctx', playback_ctx)
         => ctx'[playback_ctx].seg_idx = ctx[playback_ctx].seg_idx
    /\ sent'.type = "tts_paused"
         => /\ sent'.can_resume
            /\ sent'.seg_idx = ctx'[sent'.turn_id].seg_idx
            /\ sent'.seg_idx < ctx'[sent'.turn_id].nseg
            /\ playback_cancel
    /\ playback_task.pc = "aPaused" /\ playback_task' # playback_task
         => /\ playback_task' = [playback_task EXCEPT !.pc = "done"]
            /\ turns'[playback_task.turn].status = "interrupted"
    /\ sent'.type = "audio" => wire_ctl'.type # "tts_paused"

\* C5: with the cancel signal set the cursor of the turn does not move;
\* tts_paused carries the cursor and can_resume = true; the task that wrote
\* tts_paused ends by returning, with status interrupted persisted; no audio
\* frame is written after tts_paused before resume_started or turn_started.
C5_PauseOnCancel == [][C5_Step]_vars

\* C6: a Turn row whose status is completed or error keeps its status,
\* resume_count and metrics in every later step.
C6_TerminalRowsImmutable ==
    [][\A tid \in Turns :
          turns[tid].status \in {"completed", "error"} /\ LiveRow(turns', tid)
             => /\ turns'[tid].status = turns[tid].status
                /\ turns'[tid].resume_count = turns[tid].resume_count
                /\ turns'[tid].metrics = turns[tid].metrics]_vars

\* C7: a chunk for which the detector reports a start while a playback task
\* is running, its cancel signal not yet set, makes the session send
\* speech_start and clear the accumulator, and its next step sets the
\* cancel signal and sends interrupt_requested with reason barge_in.
C7_BargeInOnSpeechStart ==
    [][/\ mpc = "recv" /\ msg'.kind = "binary" /\ msg'.start
             /\ TaskLive /\ ~playback_cancel
            => /\ sent'.type = "speech_start"
               /\ ~current_pcm'
               /\ mpc' = "aSpeechStart"
       /\ mpc = "aSpeechStart" /\ mpc' # "aSpeechStart" /\ TaskLive
            => /\ playback_cancel'
               /\ sent'.type = "interrupt_requested"
               /\ sent'.reason = "barge_in"]_vars

\* the synthesis stream of the task in slot s raises
StreamFails(s) == Task(s).pc = "stream" /\ Goto(s, "aError")

\* the step in which a synthesis stream raises
C18_Step ==
    \A s \in Slots :
       StreamFails(s) =>
          /\ turns'[Task(s).turn].status = "error"
          /\ sent' = Frame("error", 0, 0, s, "playback_failed")
          /\ UNCHANGED mainVars

\* C18: when the synthesis stream of a playback task raises, the Turn of the
\* task is persisted with status error and an error event is sent; the
\* receive loop is where it was, and while the row says error it has a next
\* step to take.
C18_StreamFailure ==
    /\ [][C18_Step]_vars
    /\ [](\A tid \in Turns : turns[tid].status = "error" => ENABLED MainStep)

\* after a failed playback the receive loop has answered a ping
C18_Witness ==
    /\ playback_task.pc = "done"
    /\ playback_task.turn # 0
    /\ turns[playback_task.turn].status = "error"
    /\ sent = Frame("pong", 0, 0, "main", "")

\* a step in which code handling an inbound frame raised: the receive loop
\* was left, or prepare_turn's exception was reported
C19_Step ==
    (\/ mpc # "raised" /\ mpc' = "raised"
     \/ mpc = "prepare" /\ mpc' = "recv" /\ sent'.type = "error")
       => /\ sent'.type = "error"
          /\ mpc' = "recv"

\* C19: whatever raises while an inbound frame is handled, the client gets
\* an error event and the receive loop goes on to the next frame; the loop
\* is left only by a disconnect.
C19_AllExceptionsReported == [][C19_Step]_vars

\* the task in slot s leaves the segment loop by its completion branch
Completes(s) == Task(s).pc \in {"aTtsStart", "stream"} /\ Goto(s, "aTurnEnd")

\* a step seen from the completion of a turn
C20_Step ==
    /\ \A s \in Slots :
          Completes(s) =>
             LET tid == Task(s).turn
             IN  /\ ~CancelSet(s)
                 /\ ctx'[tid].seg_idx = ctx'[tid].nseg
                 /\ turns[tid].status = "speaking"
                 /\ turns'[tid].status = "completed"
                 /\ turns'[tid].audio = pcm_to_wav_bytes(ctx'[tid].pcm_buffer)
                 /\ turns'[tid].metrics =
                       [kind |-> "final", seg_idx |-> -1,
                        seg_count |-> ctx'[tid].nseg,
                        resume_count |-> ctx'[tid].resume_count]
                 /\ sent' = Frame("turn_end", tid, 0, s, "")
    /\ (sent'.type = "turn_end" /\ vars' # vars) => \E s \in Slots : Completes(s)
    /\ (sent'.type = "tts_end" /\ vars' # vars) =>
          \E s \in Slots :
             /\ Task(s).pc = "aTurnEnd"
             /\ Goto(s, "aTtsEnd")
             /\ sent' = Frame("tts_end", Task(s).turn, 0, s, "")
    /\ \A s \in Slots :
          (Task(s).pc = "aTurnEnd" /\ Task(s)' # Task(s)) =>
             \/ Goto(s, "aTtsEnd") /\ sent'.type = "tts_end"
             \/ mpc = "wait"
    /\ \A s \in Slots :
          (Task(s).pc = "aTtsEnd" /\ Task(s)' # Task(s)) =>
             \/ playback_ctx' = 0
             \/ mpc = "wait"
    /\ (sent'.type = "resume_started" /\ vars' # vars) =>
          /\ playback_ctx # 0
          /\ turns[playback_ctx].status # "completed"
    /\ (mpc = "recv" /\ playback_ctx = 0) =>
          ENABLED M_ResumeNoPending /\ ~ENABLED M_ResumeAccepted

\* C20 as stated: once the segments are streamed and no cancellation was
\* observed, completed is persisted with the final audio and metrics,
\* turn_end and then tts_end are sent, once each, and the context is dropped,
\* after which a resume is answered no_pending.
C20_CompletionAlways ==
    [][/\ C20_Step
       /\ \A s \in Slots :
             (Task(s).pc = "aTurnEnd" /\ Task(s)' # Task(s)) =>
                Goto(s, "aTtsEnd") /\ sent'.type = "tts_end"
       /\ \A s \in Slots :
             (Task(s).pc = "aTtsEnd" /\ Task(s)' # Task(s)) =>
                playback_ctx' = 0]_vars

\* C20, amended: the same, unless the start_playback of a new turn comes to
\* wait for the task while turn_end or tts_end is being sent; what the task
\* had left to send is then dropped.  A task that has sent turn_end or
\* tts_end always has its next step to take.
C20_CompletionUnlessSuperseded ==
    /\ [][C20_Step]_vars
    /\ [](playback_task.pc \in {"aTurnEnd", "aTtsEnd"} =>
             ENABLED (R_AfterTurnEnd("cur") \/ R_AfterTtsEnd("cur")))

\* a resume after the completed turn was answered no_pending
C20_Witness ==
    /\ playback_task.pc = "done"
    /\ playback_ctx = 0
    /\ sent = Frame("resume_rejected", 0, 0, "main", "no_pending")

(***************************************************************************)
(* Control frame claims (Spec)                                             *)
(***************************************************************************)
\* a step of the connection, seen from the answers to resume
C22_Step ==
    /\ sent'.type = "resume_rejected" =>
          /\ sent'.reason \in {"no_pending", "already_speaking"}
          /\ sent'.reason = "no_pending" <=> playback_ctx = 0
          /\ sent'.reason = "already_speaking" <=> (playback_ctx # 0 /\ TaskLive)
          /\ UNCHANGED <<playback_ctx, playback_task, playback_cancel, superseded,
                         ctx, turns, wire_ctl>>
          /\ UNCHANGED <<mpc, msg, in_speech, current_pcm, det_in_speech>>
    /\ (sent'.type = "resume_started" /\ vars' # vars) =>
          playback_ctx # 0 /\ ~TaskLive
    /\ (mpc = "recv" /\ playback_ctx = 0) =>
          /\ ENABLED M_ResumeNoPending
          /\ ~ENABLED M_ResumeAlreadySpeaking
          /\ ~ENABLED M_ResumeAccepted
    /\ (mpc = "recv" /\ playback_ctx # 0 /\ TaskLive) =>
          /\ ENABLED M_ResumeAlreadySpeaking
          /\ ~ENABLED M_ResumeNoPending
          /\ ~ENABLED M_ResumeAccepted

\* C22: a resume is answered resume_rejected no_pending exactly when there
\* is no playback context and resume_rejected already_speaking exactly when
\* there is one and the playback task runs; the rejection leaves the
\* context (seg_idx, resume_count), the cancel signal, the task and the
\* persisted rows as they were.
C22_ResumeRejected == [][C22_Step]_vars

\* a resume was rejected while the turn was being spoken, its signal not set
C22_Witness ==
    /\ sent = Frame("resume_rejected", 0, 0, "main", "already_speaking")
    /\ TaskLive
    /\ ~playback_cancel
    /\ turns[playback_ctx].status = "speaking"

\* the steps that call interrupt_playback: the stop frame and the barge-in
InterruptStep == M_Stop \/ M_BargeIn

\* C23 as stated: a stop or a barge-in while the same task still runs and
\* its cancel signal is already set has no effect at all, no state change and
\* no further event.
C23_SecondInterruptSilent ==
    [][(InterruptStep /\ TaskLive /\ playback_cancel) =>
            /\ UNCHANGED playVars
            /\ sent'.type # "interrupt_requested"]_vars

C23_Step ==
    /\ (InterruptStep /\ TaskLive /\ playback_cancel) =>
            /\ UNCHANGED playVars
            /\ sent' = Frame("interrupt_requested", playback_ctx, 0, "main",
                             IF mpc = "recv" THEN "user_stop" ELSE "barge_in")
    /\ (InterruptStep /\ TaskLive /\ ~playback_cancel) =>
            /\ playback_cancel'
            /\ UNCHANGED <<playback_ctx, playback_task, superseded, ctx, turns, wire_ctl>>
            /\ sent'.type = "interrupt_requested"
    /\ (InterruptStep /\ ~TaskLive) =>
            /\ UNCHANGED playVars
            /\ sent'.type # "interrupt_requested"
    /\ (M_Stop /\ ~TaskLive) =>
            /\ sent' = NoFrame
            /\ UNCHANGED <<mpc, msg, in_speech, current_pcm, det_in_speech>>

\* C23: a stop or a barge-in while the same task still runs and its cancel
\* signal is already set changes no playback state, but it does send one more
\* interrupt_requested event naming the turn; when no task is running the
\* interrupt sends no event and changes no state.
C23_InterruptIdempotentState == [][C23_Step]_vars

\* a second stop has just been answered: the signal is set, the task has
\* meanwhile sent tts_paused and is still running
C23_Witness ==
    /\ sent = Frame("interrupt_requested", playback_ctx, 0, "main", "user_stop")
    /\ TaskLive
    /\ playback_cancel
    /\ playback_ctx # 0
    /\ playback_task.pc = "aPaused"

\* what C24 calls a frame to be ignored, read off the text itself: it does
\* not parse, or parses to something that is not an object, or is an object
\* whose type is absent or none of ping, resume, stop
Malformed(text) ==
    LET v == json_loads(text)
    IN  \/ v.kind = "raise"
        \/ v.kind # "dict"
        \/ v.type \notin {"ping", "resume", "stop"}

\* the frame is dropped: nothing is sent, and playback, detector and
\* accumulator are as before, with the loop back at receive
Dropped ==
    /\ sent' = NoFrame
    /\ mpc' = "recv"
    /\ UNCHANGED playVars
    /\ UNCHANGED <<msg, in_speech, current_pcm, det_in_speech>>
    /\ UNCHANGED <<cfg, det, hist>>

StartsPlayback ==
    \/ M_ResumeAccepted
    \/ M_PrepareOk /\ ~TaskLive
    \/ M_WaitDone
    \/ M_WaitTimeout

C25_Step ==
    /\ (StartsPlayback /\ turns'[playback_ctx'].status # "speaking") =>
          /\ sent'.type = (IF mpc = "recv" THEN "resume_started" ELSE "turn_started")
          /\ sent'.turn_id = playback_ctx'
          /\ playback_task' = [pc |-> "new", turn |-> playback_ctx']
          /\ ~playback_cancel'
          /\ mpc' = "recv"
          /\ mpc = "recv" =>
                ctx'[playback_ctx].resume_count = ctx[playback_ctx].resume_count + 1
    /\ \A s \in Slots :
          /\ (R_AfterTtsStart(s) \/ R_StreamEnd(s)) =>
                /\ Task(s)'.pc \in {"stream", "aPaused", "aTurnEnd"}
                /\ Task(s)'.pc = "aPaused" <=> CancelSet(s)
                /\ Task(s)'.pc = "aTurnEnd" =>
                      sent' = Frame("turn_end", Task(s).turn, 0, s, "")
                /\ Task(s)'.pc = "aPaused" => sent'.type = "tts_paused"
          /\ (R_AfterPaused(s) /\ s = "cur") =>
                /\ playback_task' = [playback_task EXCEPT !.pc = "done"]
                /\ playback_ctx' = playback_ctx
                /\ playback_ctx # 0 => ctx'[playback_ctx] = ctx[playback_ctx]
          /\ R_AfterTurnEnd(s) => sent' = Frame("tts_end", Task(s).turn, 0, s, "")

\* C25: on a db session whose writes can raise, a failed write of the
\* playback controller does not abort the flow: start and resume still send
\* turn_started or resume_started and create the task, the task that ran out
\* of segments still sends turn_end and then tts_end, the paused task still
\* returns with its context kept for resume, and no write failure sends the
\* task into its error branch; a task that has a frame left to send can
\* always send it.
C25_WriteFailureKeepsFlow ==
    /\ [][C25_Step]_vars
    /\ [](\A s \in Slots :
            /\ Task(s).pc = "aTurnEnd" => ENABLED R_AfterTurnEnd(s)
            /\ Task(s).pc = "aTtsEnd" => ENABLED R_AfterTtsEnd(s)
            /\ Task(s).pc = "aPaused" => ENABLED R_AfterPaused(s))

\* tts_end of a turn that was paused and resumed has just been sent, and the
\* row of the turn is still as prepare_turn wrote it: every write of the
\* controller failed
C25_Witness ==
    /\ db_fails
    /\ sent.type = "tts_end"
    /\ playback_task.pc = "aTtsEnd"
    /\ ctx[playback_task.turn].resume_count = 1
    /\ turns[playback_task.turn].status = "pending"
    /\ turns[playback_task.turn].resume_count = 0

(***************************************************************************)
(* Segmentation claims (SpecSeg)                                           *)
(***************************************************************************)
\* the characters of s that are not whitespace, in order
NonSpace(s) == SelectSeq(s, LAMBDA c : ~IsSpace(c))

\* C26: no segment returned by segment_text_for_tts is longer than
\* max_chars, for every text and every max_chars >= 1.
C26_NoSegmentLongerThanMax ==
    seg_pc \in {"done", "again"} =>
        \A i \in DOMAIN seg_out : Len(seg_out[i]) <= seg_in.max_chars

\* a text of five letters without punctuation was cut into chunks of two
C26_Witness ==
    /\ seg_pc = "done"
    /\ seg_in.text = <<"a", "a", "a", "a", "a">>
    /\ seg_in.max_chars = 2
    /\ seg_out = << <<"a", "a">>, <<"a", "a">>, <<"a">> >>

\* C27 as stated: when more than one segment is returned, every segment
\* other than the last has at least min_chars characters.
C27_InteriorAtLeastMin ==
    (seg_pc \in {"done", "again"} /\ Len(seg_out) > 1) =>
        \A i \in 1..(Len(seg_out) - 1) : Len(seg_out[i]) >= seg_in.min_chars

\* C28 as stated: segmenting the concatenation of the segments returns the
\* same list of segments.
C28_Idempotent == [][Resegment => seg_out' = seg_out]_vars

\* C29: the segments, concatenated, hold the non-whitespace characters of
\* the text in their order and nothing else but whitespace; no segment is
\* empty; and the list is empty exactly when the text is empty or all
\* whitespace.
C29_NoContentDropped ==
    seg_pc \in {"done", "again"} =>
        /\ NonSpace(join(seg_out)) = NonSpace(seg_in.text)
        /\ \A i \in DOMAIN seg_out : seg_out[i] # <<>>
        /\ seg_out = <<>> <=> str_strip(seg_in.text) = <<>>

\* a short clause after a sentence was merged into it, the blank and the
\* newline between them collapsed, and the result cut again at max_chars
C29_Witness ==
    /\ seg_pc = "done"
    /\ seg_in = [text |-> <<"a", ".", "\n", " ", "a">>, max_chars |-> 3, min_chars |-> 2]
    /\ seg_out = << <<"a", ".">>, <<"a">> >>

(***************************************************************************)
(* Chunking claims (SpecChunk)                                             *)
(***************************************************************************)
\* C30: two detectors that have read the same bytes of the stream, however
\* cut into chunks, have gone through the same start and end transitions
\* and are in the same state (in_speech, run counters, duration, buffered
\* bytes); after every call less than one frame is buffered, namely the
\* bytes read since the last whole frame.
C30_ChunkingInvariant ==
    /\ \A p \in Feeders :
          /\ Len(feeds[p].buf) < frame_bytes(cfg)
          /\ feeds[p].buf = SubSeq(pcm_stream, feeds[p].pos - Len(feeds[p].buf) + 1,
                                   feeds[p].pos)
          /\ Len(feeds[p].buf) = feeds[p].pos % frame_bytes(cfg)
    /\ feeds["x"].pos = feeds["y"].pos =>
          /\ feeds["x"].det = feeds["y"].det
          /\ feeds["x"].buf = feeds["y"].buf
          /\ feeds["x"].edges = feeds["y"].edges

\* both detectors have read the whole stream, one in chunks that end on
\* frame boundaries and one in chunks that cut through frames, and both
\* went through a start and an end
C30_Witness ==
    /\ feeds["x"].pos = MaxStreamLen
    /\ feeds["y"].pos = MaxStreamLen
    /\ ~feeds["x"].cut_inside
    /\ feeds["y"].cut_inside
    /\ feeds["x"].edges = <<"start", "end">>
    /\ feeds["y"].edges = <<"start", "end">>

(***************************************************************************)
(* Session and controller claims (Spec)                                    *)
(***************************************************************************)
\* C31 as stated: whenever the receive loop is back at receive, a binary
\* frame having been handled, the session's in_speech flag equals the
\* detector's in_speech state.
C31_InSpeechMirrorsDetector == mpc = "recv" => in_speech = det_in_speech

\* a step that runs start_playback to its end: a new task object
Starts == playback_task'.pc = "new" /\ playback_task' # playback_task

C32_Step ==
    /\ Starts =>
          /\ playback_ctx' = playback_task'.turn
          /\ ctx'[playback_ctx'] # NoCtx
          /\ \A tid \in Turns : ctx'[tid] # NoCtx => tid = playback_ctx'
    /\ (sent'.type = "resume_started" /\ vars' # vars) =>
          /\ Starts
          /\ sent'.turn_id = playback_ctx
          /\ sent'.turn_id = NumTurns

\* C32: at most one playback task is running at any instant (a replaced
\* task has ended or has been cancelled before the new one is created); a
\* running task plays the context the connection holds; between two frames
\* the only live context is that one; a started context replaces the one
\* before it, and resume_started names the turn started last.
C32_OneTaskOneContext ==
    /\ [](/\ ~Running(superseded)
          /\ TaskLive => playback_task.turn = playback_ctx
          /\ mpc = "recv" => \A tid \in Turns : ctx[tid] # NoCtx => tid = playback_ctx)
    /\ [][C32_Step]_vars

\* the second turn replaced the first while it was playing, was interrupted
\* and has just been resumed
C32_Witness ==
    /\ sent = Frame("resume_started", 2, sent.seg_idx, "main", "")
    /\ playback_ctx = 2
    /\ playback_task = [pc |-> "new", turn |-> 2]
    /\ ctx[1] = NoCtx
    /\ turns[1].status = "stored"

C33_Step ==
    (mpc = "wait" /\ mpc' # "wait") =>
       /\ Starts
       /\ mpc' = "recv"
       /\ playback_task'.turn = msg.ctx
       /\ playback_ctx' = msg.ctx
       /\ ~Running(superseded')

\* C33: a start_playback that waits for the previous task goes on to create
\* the task of the new context, whatever the previous task does or fails to
\* do; the step that ends the wait creates that task and returns to
\* receive, and the previous task is not running afterwards.
C33_StartAlwaysLaunches ==
    /\ [][C33_Step]_vars
    /\ (mpc = "wait" /\ TaskLive) ~> (mpc = "recv" /\ playback_ctx = NumTurns
                                         /\ playback_task.turn = NumTurns)

\* the grace period ran out on a task that was in its synthesis stream, and
\* the task of the second turn has been created
C33_Witness ==
    /\ superseded.pc = "cancelled"
    /\ playback_task = [pc |-> "new", turn |-> 2]
    /\ playback_ctx = 2
    /\ mpc = "recv"

\* the playback task in slot s ends with this step
Ends(s) ==
    /\ Running(Task(s))
    /\ \A r \in Slots :
          LET tk == IF r = "cur" THEN playback_task' ELSE superseded'
          IN  ~(Running(tk) /\ tk.turn = Task(s).turn)

C37_Step ==
    \A s \in Slots :
       Ends(s) =>
          \/ turns[Task(s).turn].status \in {"interrupted", "completed", "error"}
          \/ turns'[Task(s).turn].status \in {"interrupted", "completed", "error"}

\* C37 as stated: a playback task that ends, however it ends, has left the
\* row of its turn with playback_status interrupted, completed or error
\* (the row has it before the step that ends the task, or gets it in that
\* step); and while no playback task of the connection is running no row
\* within reach of the connection has playback_status speaking.
C37_SpeakingOnlyWhilePlaying ==
    /\ [][C37_Step]_vars
    /\ []((~TaskLive /\ ~Running(superseded))
             => \A tid \in Turns : turns[tid].status # "speaking")

(* Overlapping invocation claims (SpecOverlap) *)
\* C34 as stated: whatever the overlap of the invocations, the Turn rows of
\* one session have distinct seq values, increasing in the order in which
\* the rows were written.
C34_SeqUniquePerSession ==
    \A i, j \in 1..Len(turn_rows) :
       (i < j /\ turn_rows[i].session_id = turn_rows[j].session_id)
          => turn_rows[i].seq < turn_rows[j].seq

(* Turn pipeline claims (SpecTurn) *)
\* C35 as stated: a prepare_turn that raised has left no row behind: the
\* ChatSession it was given is the one it used, and one it created itself
\* (no session id given) does not stay in the store without a Turn.
C35_FailedPrepareLeavesNoRow ==
    (pipe.entry = "prepare_turn" /\ pipe.result = "raised" /\ pipe.session_arg = 0)
       => \/ pipe.session_id = 0
          \/ \E i \in 1..Len(turn_rows) : turn_rows[i].session_id = pipe.session_id

\* the replies that are fixed phrases of the service, not generated text
Canned == {safe_reply, sanitize_reply("")}

\* C38 as stated: a Turn written by prepare_turn whose reply_text is a canned
\* phrase has risk_flag set, risk_source input or output and an
\* audit_action other than allow; audit_action allow goes with a generated
\* reply stored as it was generated.
C38_SubstituteIsFlagged ==
    \A i \in 1..Len(turn_rows) :
       LET row == turn_rows[i]
       IN  row.playback_status = "pending" =>
              /\ row.reply_text \in Canned =>
                    /\ row.risk_flag
                    /\ row.risk_source \in {"input", "output"}
                    /\ row.audit_action # "allow"
              /\ row.audit_action = "allow" => row.reply_text \in LlmReplies

(* Reply text claims (SpecReply) *)
\* C39 as stated: whatever the child's forbidden topics, the generated reply
\* and the verdicts of the safety checks, the reply text prepare_turn settles
\* on contains none of the child's forbidden topics and none of the baseline
\* keywords.
C39_ReplyHasNoForbiddenWord ==
    reply_pc = "done" =>
       \A kw \in split_str(reply_in.forbidden_topics) \cup BaselineKeywords :
          ~contains(reply_out, kw)

(* One-time code claims (SpecOtp) *)
\* C40 as stated: once OTP_MAX_VERIFY_FAILS verifications have failed since
\* the last one that succeeded, whatever send_code calls came between, the
\* phone is locked until the lock period after the last of these failures
\* has passed.
C40_LockedAfterMaxFails ==
    (/\ otp_log.fails >= OTP_MAX_VERIFY_FAILS
     /\ otp_now < otp_log.full_at + LockSeconds)
       => otp.sent /\ locked(otp, otp_now)

(* Reply audio claims (SpecBuf) *)
\* C36 as stated: the audio stored for a completed turn is the audio of its
\* segments 0..n-1 in order, each once, whatever interrupts and resumes
\* there were; and the buffer a checkpoint is given holds the chunks
\* buffered since the checkpoint before it, and no others.
C36_ReplyAudioIsConcatenation ==
    /\ reply_audio.status = "completed"
          => reply_audio.wav = pcm_to_wav_bytes(Audio(pb.nseg))
    /\ \A i \in 1..Len(reply_audio.handed) :
          reply_audio.handed[i].buffer = reply_audio.handed[i].since

(***************************************************************************)
(* Writer claims (SpecWire)                                                *)
(***************************************************************************)
\* C21: at most one coroutine is inside ws.send_json / ws.send_bytes at any
\* instant, and the frames on the wire are frames whose send was called, in
\* the order of those calls, whichever coroutine called and whether JSON or
\* audio.
C21_SingleOrderedWriter ==
    /\ Cardinality({p \in Senders : sender[p].pc = "write"}) <= 1
    /\ \A i \in 1..Len(wire) :
          /\ wire[i].id \in 1..Len(requests)
          /\ wire[i] = requests[wire[i].id]
    /\ \A i, j \in 1..Len(wire) : i < j => wire[i].id < wire[j].id

\* an audio frame of the task went out between two events of the receive
\* loop, and the task had to queue for the lock
C21_Witness ==
    /\ \E i \in 1..Len(wire) :
          /\ i + 2 <= Len(wire)
          /\ wire[i].who = "main" /\ wire[i].kind = "json"
          /\ wire[i + 1].who = "task" /\ wire[i + 1].kind = "bytes"
          /\ wire[i + 2].who = "main"
    /\ sender["task"].pc = "acquire"

====
